---- MODULE Spec2Model ----
(***************************************************************************)
(* A state-machine model of jiant/proj/main/runner.py: TrainState, the     *)
(* lazy train-step generators of JiantRunner, the run_train_step of the    *)
(* base, Reptile, DDS and MultiDDS runners, and the evaluation entry       *)
(* points.  Tensors are abstracted: a gradient buffer is the sequence of   *)
(* the tasks whose backward passes have accumulated into it since the last *)
(* zero_grad (the empty sequence is the all-zero buffer).                  *)
(***************************************************************************)
EXTENDS Integers, Sequences, FiniteSets, TLC

\* ------------------------------------------------------------- bounds
NumTasks == 2
MaxSteps == 3
MaxAccum == 2
MaxFreq == 2
MaxUpdateSteps == 2
MaxInner == 2
MaxSampled == 2
MaxDraws == 2
MaxBatch == 2
MaxEvalBatches == 2
MaxEvalRunSteps == 2
MaxLoss == 2
MaxCkptSteps == 2
MaxSaves == 2
MaxTaskList == 3
MaxObjects == 2
MaxNamed == 2

\* task_dict of the sampler, in its iteration order
Tasks == 1..NumTasks

VARIABLES
  cfg,            \* the container's and the runner's immutable configuration
  train_state,    \* TrainState: global_steps, task_steps
  gen,            \* the generator object of run_train_context / resume_train_context
  grad,           \* optimizer gradient buffers (contributions since the last zero_grad)
  opt_steps,      \* number of optimizer_scheduler.step() calls of this process
  mode,           \* jiant_model mode: "train" or "eval"
  log,            \* log_writer entries of category loss_train, in emission order
  events,         \* the calls made by the most recent handler, in order
  error,          \* the exception the most recent handler raised, "" when none
  dds_log,        \* records appended to dds_details_logs.jsonl
  dds_opt_steps,  \* number of DDSOptimizer.step calls
  target_grad,    \* MultiDDSRunner.target_grad (accumulated target gradient)
  rewards,        \* reward vectors handed to task_sampler.update_sampler, in order
  eval_out,       \* value returned by the most recent run_val / run_test call
  weights,        \* jiant_model parameters: the gradient contributions applied so far
  opt_state,      \* state of optimizer_scheduler.optimizer: the steps it records
  saver,          \* the CheckpointSaver instance
  disk,           \* the torch_utils.safe_save calls made, in order
  aux_at_save,    \* history: the runner's auxiliary state at each of those saves
  ckpt_out,       \* the most recent get_runner_state / load_state call
  units,          \* the objects of the heap: a TaskAwareUnit's tau_task_name, or not a unit
  tau_dict,       \* the dict the most recent create_tau_dict returned (name -> object)
  dirs            \* the directories that exist under output_base_path

vars == <<cfg, train_state, gen, grad, opt_steps, mode, log, events, error,
          dds_log, dds_opt_steps, target_grad, rewards, eval_out,
          weights, opt_state, saver, disk, aux_at_save, ckpt_out,
          units, tau_dict, dirs>>

\* ------------------------------------------------------------- TrainState

from_task_name_list(task_name_list) ==
  [global_steps |-> 0, task_steps |-> [t \in task_name_list |-> 0]]

TrainStateStepGlobalOnly(ts, task_name) ==
  [ts EXCEPT !.global_steps = @ + 1]

TrainStateStep(ts, task_name) ==
  [global_steps |-> ts.global_steps + 1,
   task_steps   |-> [ts.task_steps EXCEPT ![task_name] = @ + 1]]

TrainStateStepCountsFirst(ts, task_name) ==
  IF task_name \in DOMAIN ts.task_steps
  THEN [ts |-> TrainStateStep(ts, task_name), error |-> ""]
  ELSE [ts |-> [ts EXCEPT !.global_steps = @ + 1], error |-> "KeyError"]

\* TrainState.step as a call that may fail: task_steps is a plain dict, so
\* task_steps[task_name] += 1 raises KeyError on reading a missing key, before
\* the dict or global_steps is written
TrainStateStepCall(ts, task_name) ==
  IF task_name \in DOMAIN ts.task_steps
  THEN [ts |-> TrainStateStep(ts, task_name), error |-> ""]
  ELSE [ts |-> ts, error |-> "KeyError"]

\* ------------------------------------------------------------- configuration

\* task_specific_configs[t].gradient_accumulation_steps: the first task
\* accumulates over 1..MaxAccum micro-batches, the others over one
AccumConfigs ==
  {[t \in Tasks |-> IF t = 1 THEN a ELSE 1] : a \in 1..MaxAccum}

\* a stream of one batch
OneBatchStream == <<[loss |-> 1, len |-> 1]>>

\* An evaluation stream (the same cache serves every task and both phases):
\* each batch with its mean loss and its number of examples; the batches are
\* of eval_batch_size MaxBatch but for the last, which may be shorter.
EvalStreams ==
  UNION {{[i \in 1..n |-> [loss |-> losses[i],
                           len |-> IF i = n THEN last ELSE MaxBatch]] :
            losses \in [1..n -> 1..MaxLoss], last \in 1..MaxBatch} :
         n \in 0..MaxEvalBatches}

\* task_run_config.test_task_list: all the tasks, or the first one only
TestTaskLists == {Tasks, {1}}

BaseCfg ==
  [runner: {"base"}, max_steps: 0..MaxSteps, gas: AccumConfigs,
   local_rank: {-1}, val_stream: {OneBatchStream}, target_task: {1},
   dds_update_freq: {1}, dds_update_steps: {1}, sampler_update_freq: {1},
   accumulate_target_grad: {FALSE}, inner_steps: {1}, num_sampled_tasks: {1}]

ReptileCfg ==
  [runner: {"reptile"}, max_steps: 0..MaxSteps, gas: AccumConfigs,
   local_rank: {-1}, val_stream: {OneBatchStream}, target_task: {1},
   dds_update_freq: {1}, dds_update_steps: {1}, sampler_update_freq: {1},
   accumulate_target_grad: {FALSE},
   inner_steps: 1..MaxInner, num_sampled_tasks: 1..MaxSampled]

DDSCfg ==
  [runner: {"dds"}, max_steps: 0..MaxSteps, gas: AccumConfigs,
   local_rank: {-1}, val_stream: {OneBatchStream}, target_task: Tasks,
   dds_update_freq: 1..MaxFreq, dds_update_steps: 1..MaxUpdateSteps,
   sampler_update_freq: {1},
   accumulate_target_grad: {FALSE}, inner_steps: {1}, num_sampled_tasks: {1}]

MultiDDSCfg ==
  [runner: {"multidds"}, max_steps: 0..MaxSteps, gas: AccumConfigs,
   local_rank: {-1}, val_stream: {OneBatchStream}, target_task: Tasks,
   dds_update_freq: {1}, dds_update_steps: {1},
   sampler_update_freq: 1..MaxFreq,
   accumulate_target_grad: BOOLEAN, inner_steps: {1}, num_sampled_tasks: {1}]

\* task.TASK_TYPE of the tasks a DistillationRunner is run on
TaskTypes ==
  {"classification", "span_comparison_classification", "tagging",
   "squad_style_qa", "multiple_choice"}

\* the first task is of any type, the others are classification tasks
TaskTypeConfigs ==
  {[t \in Tasks |-> IF t = 1 THEN ty ELSE "classification"] : ty \in TaskTypes}

DistillationCfg ==
  [runner: {"distillation"}, max_steps: 0..MaxSteps, gas: AccumConfigs,
   local_rank: {-1}, val_stream: {OneBatchStream}, target_task: {1},
   dds_update_freq: {1}, dds_update_steps: {1}, sampler_update_freq: {1},
   accumulate_target_grad: {FALSE}, inner_steps: {1}, num_sampled_tasks: {1},
   task_type: TaskTypeConfigs]

Configs == BaseCfg \cup ReptileCfg \cup DDSCfg \cup MultiDDSCfg \cup DistillationCfg

\* the configurations the JiantRunner evaluation methods are explored under:
\* the base runner, in the primary role (local_rank -1) or another one, with
\* an empty or a one-batch stream, and either test task list
EvalConfigs ==
  [runner: {"base"}, max_steps: 0..MaxEvalRunSteps, gas: {[t \in Tasks |-> 1]},
   local_rank: {-1, 0}, val_stream: {<<>>, OneBatchStream}, target_task: {1},
   dds_update_freq: {1}, dds_update_steps: {1}, sampler_update_freq: {1},
   accumulate_target_grad: {FALSE}, inner_steps: {1}, num_sampled_tasks: {1},
   test_task_list: TestTaskLists]

\* the inputs the module-level run_val and run_test are explored on: every
\* evaluation stream
RunValConfigs ==
  [runner: {"base"}, max_steps: {0}, gas: {[t \in Tasks |-> 1]},
   local_rank: {-1}, val_stream: EvalStreams, target_task: {1},
   dds_update_freq: {1}, dds_update_steps: {1}, sampler_update_freq: {1},
   accumulate_target_grad: {FALSE}, inner_steps: {1}, num_sampled_tasks: {1},
   test_task_list: {Tasks}]

\* ------------------------------------------------------------- runner state

\* The mutable state a handler works on, as one record.
World ==
  [train_state |-> train_state, grad |-> grad, opt_steps |-> opt_steps,
   mode |-> mode, log |-> log, events |-> <<>>, error |-> "",
   dds_log |-> dds_log, dds_opt_steps |-> dds_opt_steps,
   target_grad |-> target_grad, rewards |-> rewards, task_grad_sim |-> <<>>,
   weights |-> weights, opt_state |-> opt_state,
   units |-> units, tau_dict |-> tau_dict, dirs |-> dirs]

Commit(w) ==
  /\ train_state' = w.train_state
  /\ grad' = w.grad
  /\ opt_steps' = w.opt_steps
  /\ mode' = w.mode
  /\ log' = w.log
  /\ events' = w.events
  /\ error' = w.error
  /\ dds_log' = w.dds_log
  /\ dds_opt_steps' = w.dds_opt_steps
  /\ target_grad' = w.target_grad
  /\ rewards' = w.rewards
  /\ weights' = w.weights
  /\ opt_state' = w.opt_state
  /\ units' = w.units
  /\ tau_dict' = w.tau_dict
  /\ dirs' = w.dirs

\* One call, recorded with the model's mode and the gradient buffer it leaves.
Emit(w, op, task) ==
  [w EXCEPT !.events = Append(@, [op |-> op, task |-> task, mode |-> w.mode,
                                  grad |-> w.grad])]

ModelTrainSkipped(w) == Emit(w, "model.train", 0)

\* self.jiant_model.train()
ModelTrain(w) == Emit([w EXCEPT !.mode = "train"], "model.train", 0)

SamplerPop(w, task_name) == Emit(w, "sampler.pop", task_name)

\* wrap_jiant_forward on one popped batch of task_name
Forward(w, task_name) == Emit(w, "forward", task_name)

\* complex_backpropagate: the backward pass adds the batch's gradient
Backpropagate(w, task_name) ==
  Emit([w EXCEPT !.grad = Append(@, task_name)], "backward", task_name)

\* the accumulation loop: n times, pop a batch of task_name, forward it and
\* backpropagate its loss (the k-th call of the loop is a forward pass when k
\* is odd and the backward pass of the same batch when k is even)
MicroBatches(w, task_name, n) ==
  LET GradAfter(k) == w.grad \o [j \in 1..(k \div 2) |-> task_name]
      Call(k) == [op |-> IF k % 2 = 1 THEN "forward" ELSE "backward",
                  task |-> task_name, mode |-> w.mode, grad |-> GradAfter(k)]
  IN  [w EXCEPT !.grad = GradAfter(2 * n),
                !.events = @ \o [k \in 1..(2 * n) |-> Call(k)]]

\* optimizer_scheduler.step(): the accumulated gradient is applied to the
\* parameters and the optimizer records one more step
OptimizerStep(w) ==
  Emit([w EXCEPT !.opt_steps = @ + 1, !.weights = @ \o w.grad,
                 !.opt_state = @ + 1],
       "optimizer.step", 0)

ZeroGradKeeps(w) == Emit(w, "zero_grad", 0)

ZeroGrad(w) == Emit([w EXCEPT !.grad = <<>>], "zero_grad", 0)

AdvanceTrainState(w, task_name) ==
  Emit([w EXCEPT !.train_state = TrainStateStep(@, task_name)],
       "train_state.step", task_name)

LossTrainRecordStale(w, task_name) ==
  [task |-> task_name,
   task_step |-> w.train_state.task_steps[task_name],
   global_step |-> w.train_state.global_steps - 1]

LossTrainRecord(w, task_name) ==
  [task |-> task_name,
   task_step |-> w.train_state.task_steps[task_name],
   global_step |-> w.train_state.global_steps]

WriteLossTrain(w, task_name) ==
  Emit([w EXCEPT !.log = Append(@, LossTrainRecord(w, task_name))],
       "write_entry", task_name)

Raise(w, exception) == [w EXCEPT !.error = exception]

\* ------------------------------------------------------------- JiantRunner

JiantRunTrainStepPerBatch(w, task_name) ==
  LET w1 == SamplerPop(ModelTrain(w), task_name)
      w2 == ZeroGrad(OptimizerStep(MicroBatches(w1, task_name, 1)))
      w3 == MicroBatches(w2, task_name, cfg.gas[task_name] - 1)
      w4 == AdvanceTrainState(ZeroGrad(OptimizerStep(w3)), task_name)
  IN  WriteLossTrain(w4, task_name)

JiantRunTrainStep(w, task_name) ==
  LET w1 == SamplerPop(ModelTrain(w), task_name)
      w2 == MicroBatches(w1, task_name, cfg.gas[task_name])
      w3 == ZeroGrad(OptimizerStep(w2))
      w4 == AdvanceTrainState(w3, task_name)
  IN  WriteLossTrain(w4, task_name)

\* ------------------------------------------------------------- ReptileRunner

\* the accumulation loop repeated for each of num_sampled_tasks (same task)
RECURSIVE ReptileSampledLoop(_, _, _)
ReptileSampledLoop(w, task_name, n) ==
  IF n = 0 THEN w
  ELSE ReptileSampledLoop(MicroBatches(w, task_name, cfg.gas[task_name]),
                          task_name, n - 1)

RECURSIVE ReptileInnerLoop(_, _, _)
ReptileInnerLoop(w, task_name, n) ==
  IF n = 0 THEN w
  ELSE ReptileInnerLoop(
         Emit(ReptileSampledLoop(w, task_name, cfg.num_sampled_tasks),
              "inner_step", 0),
         task_name, n - 1)

ReptileRunTrainStepOuterInside(w, task_name) ==
  LET w1 == Emit(SamplerPop(ModelTrain(w), task_name), "inner_begin", 0)
      w2 == OptimizerStep(ReptileInnerLoop(w1, task_name, cfg.inner_steps))
      w3 == ZeroGrad(Emit(w2, "inner_end", 0))
      w4 == AdvanceTrainState(w3, task_name)
  IN  WriteLossTrain(w4, task_name)

ReptileRunTrainStep(w, task_name) ==
  LET w1 == Emit(SamplerPop(ModelTrain(w), task_name), "inner_begin", 0)
      w2 == Emit(ReptileInnerLoop(w1, task_name, cfg.inner_steps), "inner_end", 0)
      w3 == ZeroGrad(OptimizerStep(w2))
      w4 == AdvanceTrainState(w3, task_name)
  IN  WriteLossTrain(w4, task_name)

\* ------------------------------------------------------------- DDSRunner

DDSKeepsAnyTask(task_name) == TRUE

DDSKeepsNoTask(task_name) == FALSE

\* the exit test of the sampling loop: task_name != self.target_task
DDSKeepsTask(task_name) == task_name /= cfg.target_task

\* The draws one pass through the sampling loop consumes: every draw but the
\* last is rejected and the last one is kept.
DDSSamplingLoop(draws) ==
  /\ Len(draws) >= 1
  /\ \A i \in 1..(Len(draws) - 1) : ~DDSKeepsTask(draws[i])
  /\ DDSKeepsTask(draws[Len(draws)])

RECURSIVE SamplerPops(_, _, _)
SamplerPops(w, draws, i) ==
  IF i > Len(draws) THEN w ELSE SamplerPops(SamplerPop(w, draws[i]), draws, i + 1)

DDSRunOneBatchLastIds(w, task_name, is_target_task, batch_len) ==
  LET gradient_accumulation_steps ==
        IF is_target_task THEN 1 ELSE cfg.gas[task_name]
  IN  [w |-> MicroBatches(Emit(w, "dds_weighting_model.eval", 0), task_name,
                          gradient_accumulation_steps),
       batch_len |-> batch_len,
       example_ids |-> batch_len]

\* run_one_batch: the returned batch is the last one popped, example_ids span
\* all of them; batch_len is the size of each popped batch
DDSRunOneBatch(w, task_name, is_target_task, batch_len) ==
  LET gradient_accumulation_steps ==
        IF is_target_task THEN 1 ELSE cfg.gas[task_name]
  IN  [w |-> MicroBatches(Emit(w, "dds_weighting_model.eval", 0), task_name,
                          gradient_accumulation_steps),
       batch_len |-> batch_len,
       example_ids |-> gradient_accumulation_steps * batch_len]

\* DDSOptimizer.step: one update of the weighting model, whose parameters
\* are parameters of jiant_model (recorded in weights as a 0)
DDSOptimizerStep(w) ==
  Emit([w EXCEPT !.dds_opt_steps = @ + 1, !.weights = Append(@, 0)],
       "dds_optimizer.step", 0)

\* one round of the update block: target batch, gradient read and clear,
\* rewards from the source batch, one step of the weighting model
DDSUpdateRound(w, batch_len) ==
  LET r == DDSRunOneBatch(w, cfg.target_task, TRUE, batch_len)
  IN  DDSOptimizerStep(ZeroGrad(Emit(r.w, "get_shared_grad", cfg.target_task)))

RECURSIVE DDSUpdateRounds(_, _, _)
DDSUpdateRounds(w, batch_len, n) ==
  IF n = 0 THEN w ELSE DDSUpdateRounds(DDSUpdateRound(w, batch_len), batch_len, n - 1)

\* train_state.global_steps % self.dds_update_freq == 0, after train_state.step
DDSUpdateDue(global_steps) == global_steps % cfg.dds_update_freq = 0

log_dds_details(w, task_name) ==
  Emit([w EXCEPT !.dds_log = Append(@, [task_name |-> task_name,
                                        global_steps |-> w.train_state.global_steps])],
       "log_dds_details", task_name)

DDSRunTrainStep(w, draws, batch_len) ==
  LET task_name == draws[Len(draws)]
      w1 == SamplerPops(ModelTrain(w), draws, 1)
      r  == DDSRunOneBatch(w1, task_name, FALSE, batch_len)
  IN  IF r.batch_len /= r.example_ids
      THEN Raise(r.w, "AssertionError")
      ELSE
        LET w2 == ZeroGrad(OptimizerStep(Emit(r.w, "get_shared_grad", task_name)))
            w3 == AdvanceTrainState(w2, task_name)
            due == DDSUpdateDue(w3.train_state.global_steps)
            w4 == IF due
                  THEN DDSUpdateRounds(w3, batch_len, cfg.dds_update_steps)
                  ELSE w3
            \* rewards and rl_loss are assigned only inside the update rounds
            bound == due /\ cfg.dds_update_steps > 0
        IN  IF ~bound
            THEN Raise(w4, "UnboundLocalError")
            ELSE WriteLossTrain(log_dds_details(w4, task_name), task_name)

\* ------------------------------------------------------------- MultiDDSRunner

MultiDDSRunOneBatch(w, task_name) == MicroBatches(w, task_name, cfg.gas[task_name])

ProbeTaskCounted(w, task_name, tgt) ==
  LET w1 == Emit(MultiDDSRunOneBatch(w, task_name), "get_shared_grad", task_name)
      w2 == [w1 EXCEPT !.task_grad_sim =
                    Append(@, [task |-> task_name, target |-> tgt, aux |-> w1.grad])]
  IN  AdvanceTrainState(ZeroGrad(w2), task_name)

ProbeTaskNoClear(w, task_name, tgt) ==
  LET w1 == Emit(MultiDDSRunOneBatch(w, task_name), "get_shared_grad", task_name)
  IN  [w1 EXCEPT !.task_grad_sim =
                    Append(@, [task |-> task_name, target |-> tgt, aux |-> w1.grad])]

ProbeTaskStepsOptimizer(w, task_name, tgt) ==
  LET w1 == Emit(MultiDDSRunOneBatch(w, task_name), "get_shared_grad", task_name)
      w2 == [w1 EXCEPT !.task_grad_sim =
                    Append(@, [task |-> task_name, target |-> tgt, aux |-> w1.grad])]
  IN  ZeroGrad(OptimizerStep(w2))

\* one iteration of the probe loop: batch, gradient read, similarity, clear
ProbeTask(w, task_name, tgt) ==
  LET w1 == Emit(MultiDDSRunOneBatch(w, task_name), "get_shared_grad", task_name)
      w2 == [w1 EXCEPT !.task_grad_sim =
                    Append(@, [task |-> task_name, target |-> tgt, aux |-> w1.grad])]
  IN  ZeroGrad(w2)

\* for task_idx, (task_name, task) in enumerate(task_sampler.task_dict.items())
RECURSIVE ProbeLoop(_, _, _)
ProbeLoop(w, i, tgt) ==
  IF i > NumTasks THEN w ELSE ProbeLoop(ProbeTask(w, i, tgt), i + 1, tgt)

\* the name bound to task_name once the probe loop has run: the loop rebinds
\* the step's own task_name, leaving it at the last key of task_dict
TaskNameAfterProbeLoop(task_name) == IF NumTasks >= 1 THEN NumTasks ELSE task_name

SamplerUpdateDueAlways(global_steps) == TRUE

\* if train_state.global_steps % self.sampler_update_freq == 0
SamplerUpdateDue(global_steps) == global_steps % cfg.sampler_update_freq = 0

UpdateSampler(w) ==
  Emit([w EXCEPT !.rewards = Append(@, w.task_grad_sim)], "update_sampler", 0)

MultiDDSUpdateBlockLatestOnly(w) ==
  LET w1 == MultiDDSRunOneBatch(w, cfg.target_task)
      current_target_grad == w1.grad
      w2 == ZeroGrad(Emit(w1, "get_shared_grad", cfg.target_task))
      w4 == ProbeLoop([w2 EXCEPT !.task_grad_sim = <<>>], 1, current_target_grad)
  IN  UpdateSampler(w4)

\* the body of the sampler-update branch: target batch, target gradient
\* (accumulated into self.target_grad when configured), probe loop,
\* update_sampler
MultiDDSUpdateBlock(w) ==
  LET w1 == MultiDDSRunOneBatch(w, cfg.target_task)
      current_target_grad == w1.grad
      w2 == ZeroGrad(Emit(w1, "get_shared_grad", cfg.target_task))
      w3 == IF cfg.accumulate_target_grad
            THEN [w2 EXCEPT !.target_grad = @ \o current_target_grad]
            ELSE w2
      tgt == IF cfg.accumulate_target_grad THEN w3.target_grad
             ELSE current_target_grad
      w4 == ProbeLoop([w3 EXCEPT !.task_grad_sim = <<>>], 1, tgt)
  IN  UpdateSampler(w4)

MultiDDSRunTrainStep(w, sampled) ==
  LET w1 == SamplerPop(ModelTrain(w), sampled)
      w2 == MultiDDSRunOneBatch(w1, sampled)
      w3 == ZeroGrad(OptimizerStep(w2))
      w4 == AdvanceTrainState(w3, sampled)
      due == SamplerUpdateDue(w4.train_state.global_steps)
      w5 == IF due
            THEN Emit(MultiDDSUpdateBlock(w4), "log_sampling_probabilities",
                      TaskNameAfterProbeLoop(sampled))
            ELSE w4
      task_name == IF due THEN TaskNameAfterProbeLoop(sampled) ELSE sampled
  IN  WriteLossTrain(w5, task_name)

\* ------------------------------------------------------------- DistillationRunner

\* the branches of the TASK_TYPE chain, each of which raises NotImplementedError
NotImplementedTypes ==
  {"span_comparison_classification", "classification", "squad_style_qa", "tagging"}

\* One pass through the body of the accumulation loop, which ends in a raise
\* on every path: torch.softmax is called without its dim argument
\* (softmax_accepts says whether the installed torch lets that pass); a task
\* type with a branch raises NotImplementedError; any other type falls
\* through the chain to torch.logsoftmax, a name torch does not have.
DistillationBatch(w, task_name, softmax_accepts) ==
  LET w1 == Emit(Forward(w, task_name), "teacher_forward", task_name)
  IN  IF ~softmax_accepts THEN Raise(w1, "TypeError")
      ELSE IF cfg.task_type[task_name] \in NotImplementedTypes
           THEN Raise(w1, "NotImplementedError")
           ELSE Raise(w1, "AttributeError")

DistillationRunTrainStep(w, task_name, softmax_accepts) ==
  LET w1 == SamplerPop(ModelTrain(w), task_name)
      w2 == IF cfg.gas[task_name] >= 1
            THEN DistillationBatch(w1, task_name, softmax_accepts)
            ELSE w1
  IN  IF w2.error /= "" THEN w2
      ELSE WriteLossTrain(AdvanceTrainState(ZeroGrad(OptimizerStep(w2)), task_name),
                          task_name)

\* ------------------------------------------------------------- evaluation

None == [kind |-> "None"]

\* the driver holds no evaluation result
NoCall == [kind |-> "no call"]

\* the loop of run_test: a forward pass (no loss) and an accumulator update
\* for each batch of the stream, in order
RECURSIVE EvalBatches(_, _, _, _)
EvalBatches(w, task, stream, i) ==
  IF i > Len(stream) THEN w
  ELSE EvalBatches(Emit(w, "forward", task), task, stream, i + 1)

RECURSIVE SumSeq(_)
SumSeq(q) == IF q = <<>> THEN 0 ELSE Head(q) + SumSeq(Tail(q))

FoldLossWeighted(total_eval_loss, batch) == total_eval_loss + batch.loss * batch.len

\* total_eval_loss += batch_loss, batch_loss being model_output.loss.mean()
FoldLoss(total_eval_loss, batch) == total_eval_loss + batch.loss

\* the loop of run_val from the i-th batch on; st holds the function's locals
RECURSIVE RunValLoop(_, _, _, _)
RunValLoop(st, task, stream, i) ==
  IF i > Len(stream) THEN st
  ELSE RunValLoop(
         [w |-> Emit(st.w, "forward", task),
          total_eval_loss |-> FoldLoss(st.total_eval_loss, stream[i]),
          eval_accumulator |-> Append(st.eval_accumulator,
                                      [batch_loss |-> stream[i].loss, batch |-> i]),
          nb_eval_examples |-> st.nb_eval_examples + stream[i].len,
          nb_eval_steps |-> st.nb_eval_steps + 1],
         task, stream, i + 1)

IsPrimaryAlways(local_rank) == TRUE

\* the negation of the early-return test: not local_rank == -1
IsPrimary(local_rank) == local_rank = -1

run_valUnchecked(w, task, stream, local_rank, return_preds) ==
  IF ~IsPrimary(local_rank) THEN [w |-> w, ret |-> None]
  ELSE
    LET st == RunValLoop(
                [w |-> Emit([w EXCEPT !.mode = "eval"], "model.eval", 0),
                 total_eval_loss |-> 0, eval_accumulator |-> <<>>,
                 nb_eval_examples |-> 0, nb_eval_steps |-> 0],
                task, stream, 1)
    IN  [w |-> st.w,
         ret |-> [kind |-> "output", accumulator |-> st.eval_accumulator,
                  loss |-> [total |-> st.total_eval_loss,
                            steps |-> st.nb_eval_steps],
                  metrics |-> TRUE, preds |-> return_preds]]

\* module-level run_val; the result is the state it leaves and what it returns
\* (eval_loss is kept as the fraction total_eval_loss / nb_eval_steps)
run_val(w, task, stream, local_rank, return_preds) ==
  IF ~IsPrimary(local_rank) THEN [w |-> w, ret |-> None]
  ELSE
    LET st == RunValLoop(
                [w |-> Emit([w EXCEPT !.mode = "eval"], "model.eval", 0),
                 total_eval_loss |-> 0, eval_accumulator |-> <<>>,
                 nb_eval_examples |-> 0, nb_eval_steps |-> 0],
                task, stream, 1)
    IN  IF st.nb_eval_steps = 0
        THEN [w |-> Raise(st.w, "ZeroDivisionError"), ret |-> None]
        ELSE [w |-> st.w,
              ret |-> [kind |-> "output", accumulator |-> st.eval_accumulator,
                       loss |-> [total |-> st.total_eval_loss,
                                 steps |-> st.nb_eval_steps],
                       metrics |-> TRUE, preds |-> return_preds]]

\* module-level run_test
run_test(w, task, stream, local_rank, return_preds) ==
  IF ~IsPrimary(local_rank) THEN [w |-> w, ret |-> None]
  ELSE
    LET w1 == EvalBatches(Emit([w EXCEPT !.mode = "eval"], "model.eval", 0),
                          task, stream, 1)
    IN  [w |-> w1,
         ret |-> [kind |-> "output",
                  accumulator |-> [i \in 1..Len(stream) |->
                                     [batch_loss |-> 0, batch |-> i]],
                  preds |-> return_preds]]

TaskDictLookupDefaults(task_name) == FALSE

\* jiant_task_container.task_dict[task_name] raises KeyError
TaskDictLookupFails(task_name) == task_name \notin Tasks

\* test_dataloader_dict[task_name] raises KeyError: the dict has the tasks of
\* task_run_config.test_task_list
TestDataloaderLookupFails(task_name) == task_name \notin cfg.test_task_list

\* JiantRunner.run_val: the loop over task_name_list filling evaluate_dict
RECURSIVE RunnerRunValLoop(_, _, _, _, _)
RunnerRunValLoop(w, task_name_list, i, evaluate_dict, return_preds) ==
  IF i > Len(task_name_list) \/ w.error /= ""
  THEN [w |-> w, ret |-> [kind |-> "dict", dict |-> evaluate_dict]]
  ELSE
    LET task_name == task_name_list[i]
        r == run_val(w, task_name, cfg.val_stream, cfg.local_rank, return_preds)
    IN  IF TaskDictLookupFails(task_name)
        THEN [w |-> Raise(w, "KeyError"), ret |-> None]
        ELSE RunnerRunValLoop(r.w, task_name_list, i + 1,
                              evaluate_dict @@ (task_name :> r.ret), return_preds)

\* JiantRunner.run_val: get_val_dataloader_dict looks every name of
\* task_name_list up in task_dict before the first task is evaluated
RunnerRunVal(w, task_name_list, return_preds) ==
  LET w1 == Emit(w, "get_val_dataloader_dict", 0)
  IN  IF \E i \in 1..Len(task_name_list) : TaskDictLookupFails(task_name_list[i])
      THEN [w |-> Raise(w1, "KeyError"), ret |-> None]
      ELSE RunnerRunValLoop(w1, task_name_list, 1, <<>>, return_preds)

\* JiantRunner.run_test
RECURSIVE RunnerRunTestLoop(_, _, _, _)
RunnerRunTestLoop(w, task_name_list, i, evaluate_dict) ==
  IF i > Len(task_name_list) \/ w.error /= ""
  THEN [w |-> w, ret |-> [kind |-> "dict", dict |-> evaluate_dict]]
  ELSE
    LET task_name == task_name_list[i]
        r == run_test(w, task_name, cfg.val_stream, cfg.local_rank, TRUE)
    IN  IF TaskDictLookupFails(task_name) \/ TestDataloaderLookupFails(task_name)
        THEN [w |-> Raise(w, "KeyError"), ret |-> None]
        ELSE RunnerRunTestLoop(r.w, task_name_list, i + 1,
                               evaluate_dict @@ (task_name :> r.ret))

RunnerRunTest(w, task_name_list) ==
  RunnerRunTestLoop(Emit(w, "get_test_dataloader_dict", 0), task_name_list, 1, <<>>)

\* ------------------------------------------------------------- CheckpointSaver

\* CheckpointSaver.__init__
CheckpointSaverResuming(metadata, multiple_checkpoints) ==
  [metadata |-> metadata, multiple_checkpoints |-> multiple_checkpoints,
   save_count |-> Len(disk)]

\* CheckpointSaver.__init__ (output_dir is the one directory disk stands for)
CheckpointSaver(metadata, multiple_checkpoints) ==
  [metadata |-> metadata, multiple_checkpoints |-> multiple_checkpoints,
   save_count |-> 0]

\* the path os.path.join(output_dir, f"checkpoint_{save_count}.p") or
\* os.path.join(output_dir, "checkpoint.p"): the file name's stem and the
\* number formatted into it (-1 when the name has none)
CheckpointPath(sv) ==
  IF sv.multiple_checkpoints
  THEN [stem |-> "checkpoint_", index |-> sv.save_count]
  ELSE [stem |-> "checkpoint", index |-> -1]

CheckpointSaverSaveUncounted(sv, runner_state, metarunner_state) ==
  [saver |-> sv,
   write |-> [path |-> CheckpointPath(sv),
              data |-> [runner_state |-> runner_state,
                        metarunner_state |-> metarunner_state,
                        metadata |-> sv.metadata]]]

\* CheckpointSaver.save: the saver it leaves and the safe_save call it makes
CheckpointSaverSave(sv, runner_state, metarunner_state) ==
  [saver |-> IF sv.multiple_checkpoints
             THEN [sv EXCEPT !.save_count = @ + 1]
             ELSE sv,
   write |-> [path |-> CheckpointPath(sv),
              data |-> [runner_state |-> runner_state,
                        metarunner_state |-> metarunner_state,
                        metadata |-> sv.metadata]]]

\* ------------------------------------------------------------- runner state

GetRunnerStateNewOptimizer(w) == [model |-> w.weights, optimizer |-> 0]

\* get_runner_state: the state_dict of the model and of the main optimizer
GetRunnerState(w) == [model |-> w.weights, optimizer |-> w.opt_state]

\* load_state: load_state_dict on the model and on the main optimizer
LoadState(w, runner_state) ==
  Emit([w EXCEPT !.weights = runner_state.model,
                 !.opt_state = runner_state.optimizer],
       "load_state", 0)

\* ------------------------------------------------------------- generators

\* range(start, stop) of the generator's for loop: is there a next index
RangeHasNextInclusive(pos, stop) == pos <= stop

RangeHasNext(pos, stop) == pos < stop

ResumeStartZero(ts) == 0

\* resume_train_context: start_position = train_state.global_steps
ResumeStart(ts) == ts.global_steps

\* The generator object: the range iterator (pos, stop), and for the driver's
\* book-keeping the position it started at, the run_train_step calls it made,
\* the elements it yielded, whether it is a resume_train_context generator,
\* whether its TrainState began fresh in this process or came from a
\* checkpoint, the optimizer steps made before it was created, and whether a
\* run_train_step of an earlier generator of this runner raised.
NewGen(start, resumed, origin) ==
  [status |-> "suspended", pos |-> start, stop |-> cfg.max_steps,
   start |-> start, steps |-> 0, yielded |-> 0, resumed |-> resumed,
   origin |-> origin, opt_start |-> opt_steps,
   after_raise |-> gen.after_raise \/ gen.status = "raised"]

\* TrainStates a driver may restore from a checkpoint and hand to
\* resume_train_context (global_steps is the sum of task_steps).
ResumePoints ==
  {[global_steps |-> k, task_steps |-> [t \in Tasks |-> IF t = 1 THEN k ELSE 0]] :
     k \in 0..(MaxSteps + 1)}

InitWith(configs) ==
  /\ cfg \in configs
  /\ train_state = from_task_name_list(Tasks)
  /\ gen = [status |-> "none", pos |-> 0, stop |-> 0, start |-> 0, steps |-> 0,
            yielded |-> 0, resumed |-> FALSE, origin |-> "fresh",
            opt_start |-> 0, after_raise |-> FALSE]
  /\ grad = <<>>
  /\ opt_steps = 0
  /\ mode = "train"
  /\ log = <<>>
  /\ events = <<>>
  /\ error = ""
  /\ dds_log = <<>>
  /\ dds_opt_steps = 0
  /\ target_grad = <<>>
  /\ rewards = <<>>
  /\ eval_out = NoCall
  /\ weights = <<>>
  /\ opt_state = 0
  /\ disk = <<>>
  /\ aux_at_save = <<>>
  /\ ckpt_out = NoCall

\* no object of task_aware_unit.py has been constructed and the download
\* script has created no directory
InitOtherModules == units = <<>> /\ tau_dict = <<>> /\ dirs = {}

Init == InitWith(Configs) /\ InitOtherModules /\ saver = CheckpointSaver("metadata", FALSE)

InitEval == InitWith(EvalConfigs) /\ InitOtherModules /\ saver = CheckpointSaver("metadata", FALSE)

InitRunVal == InitWith(RunValConfigs) /\ InitOtherModules /\ saver = CheckpointSaver("metadata", FALSE)

\* run_train_context(): a fresh TrainState and range(max_steps)
RunTrainContext ==
  /\ gen.status = "none"
  /\ gen' = NewGen(0, FALSE, "fresh")
  /\ train_state' = from_task_name_list(Tasks)
  /\ events' = <<>> /\ error' = "" /\ eval_out' = NoCall /\ ckpt_out' = NoCall
  /\ UNCHANGED <<units, tau_dict, dirs,
                 cfg, grad, opt_steps, mode, log, dds_log,
                 dds_opt_steps, target_grad, rewards,
                 weights, opt_state, saver, disk, aux_at_save>>

\* resume_train_context(train_state) on a TrainState restored by the driver
ResumeFromCheckpoint ==
  /\ gen.status = "none"
  /\ \E ts \in ResumePoints :
       /\ train_state' = ts
       /\ gen' = NewGen(ResumeStart(ts), TRUE, "checkpoint")
  /\ events' = <<>> /\ error' = "" /\ eval_out' = NoCall /\ ckpt_out' = NoCall
  /\ UNCHANGED <<units, tau_dict, dirs,
                 cfg, grad, opt_steps, mode, log, dds_log,
                 dds_opt_steps, target_grad, rewards,
                 weights, opt_state, saver, disk, aux_at_save>>

\* resume_train_context(train_state) on the runner's current TrainState, after
\* the consumer dropped the previous generator (stopped early, exhausted it,
\* or saw it raise)
ResumeTrainContext ==
  /\ gen.status \in {"suspended", "exhausted", "raised"}
  /\ ~gen.resumed
  /\ gen' = NewGen(ResumeStart(train_state), TRUE, gen.origin)
  /\ events' = <<>> /\ error' = "" /\ eval_out' = NoCall /\ ckpt_out' = NoCall
  /\ UNCHANGED <<units, tau_dict, dirs,
                 cfg, train_state, grad, opt_steps, mode, log,
                 dds_log, dds_opt_steps, target_grad, rewards,
                 weights, opt_state, saver, disk, aux_at_save>>

\* The elements a consumer that kept every element it pulled now holds:
\* yield train_state hands out the generator's one TrainState object itself,
\* so each element reads that object's current fields.
Collected == [i \in 1..gen.yielded |-> train_state]

\* next() on the generator: the body of the for loop up to the yield
Advance(w) ==
  /\ Commit(w)
  /\ gen' = IF w.error = ""
            THEN [gen EXCEPT !.status = "suspended", !.pos = @ + 1,
                             !.steps = @ + 1, !.yielded = @ + 1]
            ELSE [gen EXCEPT !.status = "raised", !.steps = @ + 1]
  /\ eval_out' = NoCall /\ ckpt_out' = NoCall
  /\ UNCHANGED <<cfg, saver, disk, aux_at_save>>

NextJiant ==
  /\ gen.status = "suspended"
  /\ cfg.runner = "base"
  /\ RangeHasNext(gen.pos, gen.stop)
  /\ \E task_name \in Tasks : Advance(JiantRunTrainStep(World, task_name))

NextReptile ==
  /\ gen.status = "suspended"
  /\ cfg.runner = "reptile"
  /\ RangeHasNext(gen.pos, gen.stop)
  /\ \E task_name \in Tasks : Advance(ReptileRunTrainStep(World, task_name))

DrawSeqs == UNION {[1..n -> Tasks] : n \in 1..MaxDraws}

NextDDS ==
  /\ gen.status = "suspended"
  /\ cfg.runner = "dds"
  /\ RangeHasNext(gen.pos, gen.stop)
  /\ \E draws \in DrawSeqs, batch_len \in 1..MaxBatch :
       /\ DDSSamplingLoop(draws)
       /\ Advance(DDSRunTrainStep(World, draws, batch_len))

NextMultiDDS ==
  /\ gen.status = "suspended"
  /\ cfg.runner = "multidds"
  /\ RangeHasNext(gen.pos, gen.stop)
  /\ \E task_name \in Tasks : Advance(MultiDDSRunTrainStep(World, task_name))

NextDistillation ==
  /\ gen.status = "suspended"
  /\ cfg.runner = "distillation"
  /\ RangeHasNext(gen.pos, gen.stop)
  /\ \E task_name \in Tasks, softmax_accepts \in BOOLEAN :
       Advance(DistillationRunTrainStep(World, task_name, softmax_accepts))

\* next() when the range is used up: StopIteration
NextExhausted ==
  /\ gen.status = "suspended"
  /\ ~RangeHasNext(gen.pos, gen.stop)
  /\ gen' = [gen EXCEPT !.status = "exhausted"]
  /\ events' = <<>> /\ error' = "" /\ eval_out' = NoCall /\ ckpt_out' = NoCall
  /\ UNCHANGED <<units, tau_dict, dirs,
                 cfg, train_state, grad, opt_steps, mode, log,
                 dds_log, dds_opt_steps, target_grad, rewards,
                 weights, opt_state, saver, disk, aux_at_save>>

\* ------------------------------------------------------------- DDS sampling loop
\* The DDS step taken one draw at a time: the generator is "sampling" while
\* run_train_step is inside its while True loop and "running" from the break
\* to the end of the step.

\* DDS runners whose task sampler gives non-zero probability to the tasks of
\* sampler_support only
DDSLoopConfigs ==
  {[runner |-> c.runner, max_steps |-> c.max_steps, gas |-> c.gas,
    local_rank |-> c.local_rank, val_stream |-> c.val_stream,
    target_task |-> c.target_task, dds_update_freq |-> c.dds_update_freq,
    dds_update_steps |-> c.dds_update_steps,
    sampler_update_freq |-> c.sampler_update_freq,
    accumulate_target_grad |-> c.accumulate_target_grad,
    inner_steps |-> c.inner_steps, num_sampled_tasks |-> c.num_sampled_tasks,
    sampler_support |-> support] :
     c \in DDSCfg, support \in (SUBSET Tasks) \ {{}}}

InitDDSLoop ==
  InitWith(DDSLoopConfigs) /\ InitOtherModules /\ saver = CheckpointSaver("metadata", FALSE)

\* next() on the generator enters run_train_step: self.jiant_model.train()
DDSEnterTrainStep ==
  /\ gen.status = "suspended"
  /\ cfg.runner = "dds"
  /\ RangeHasNext(gen.pos, gen.stop)
  /\ Commit(ModelTrain(World))
  /\ gen' = [gen EXCEPT !.status = "sampling"]
  /\ eval_out' = NoCall /\ ckpt_out' = NoCall
  /\ UNCHANGED <<cfg, saver, disk, aux_at_save>>

\* the draws of the step in progress that events holds (of the rejected
\* draws it keeps the latest only)
DrawsSoFar == [i \in 1..(Len(events) - 1) |-> events[i + 1].task]

\* One iteration of the while True loop drawing task_name: a target-task
\* draw goes round again, any other draw breaks out of the loop.
DDSDrawTask(task_name) ==
  /\ gen.status = "sampling"
  /\ task_name \in cfg.sampler_support
  /\ events' = IF DDSKeepsTask(task_name)
               THEN Append(events, [op |-> "sampler.pop", task |-> task_name,
                                    mode |-> mode, grad |-> grad])
               ELSE <<events[1], [op |-> "sampler.pop", task |-> task_name,
                                  mode |-> mode, grad |-> grad]>>
  /\ gen' = IF DDSKeepsTask(task_name) THEN [gen EXCEPT !.status = "running"]
            ELSE gen
  /\ UNCHANGED <<units, tau_dict, dirs,
                 cfg, train_state, grad, opt_steps, mode, log, error,
                 dds_log, dds_opt_steps, target_grad, rewards, eval_out,
                 weights, opt_state, saver, disk, aux_at_save, ckpt_out>>

\* the rest of run_train_step after the break, up to the yield
DDSFinishTrainStep ==
  /\ gen.status = "running"
  /\ \E batch_len \in 1..MaxBatch :
       Advance(DDSRunTrainStep(World, DrawsSoFar, batch_len))

NextDDSLoop ==
  \/ RunTrainContext
  \/ DDSEnterTrainStep
  \/ \E task_name \in Tasks : DDSDrawTask(task_name)
  \/ DDSFinishTrainStep
  \/ NextExhausted

\* A task the sampler gives non-zero probability is not passed over for
\* ever: while the loop runs, each such draw is continuously possible.
SpecDDSLoop ==
  /\ InitDDSLoop /\ [][NextDDSLoop]_vars
  /\ \A task_name \in Tasks : WF_vars(DDSDrawTask(task_name))

\* ------------------------------------------------------------- TrainState calls

\* the names a caller may pass: those of task_dict and one that is in no dict
TaskNames == 1..(NumTasks + 1)

TrainStateConfigs ==
  {c \in BaseCfg : c.max_steps = 0 /\ \A t \in Tasks : c.gas[t] = 1}

InitTrainState ==
  InitWith(TrainStateConfigs) /\ InitOtherModules /\ saver = CheckpointSaver("metadata", FALSE)

\* TrainState.from_task_name_list(task_name_list) called by a driver
CallFromTaskNameList ==
  /\ \E task_name_list \in SUBSET TaskNames :
       /\ train_state' = from_task_name_list(task_name_list)
       /\ events' = <<[op |-> "from_task_name_list", task |-> task_name_list,
                       mode |-> mode, grad |-> grad]>>
  /\ error' = ""
  /\ UNCHANGED <<units, tau_dict, dirs,
                 cfg, gen, grad, opt_steps, mode, log, dds_log, dds_opt_steps,
                 target_grad, rewards, eval_out, weights, opt_state, saver,
                 disk, aux_at_save, ckpt_out>>

\* train_state.step(task_name) called by a driver
CallTrainStateStep ==
  /\ train_state.global_steps <= MaxSteps
  /\ \E task_name \in TaskNames :
       LET r == TrainStateStepCall(train_state, task_name)
       IN  /\ train_state' = r.ts
           /\ error' = r.error
           /\ events' = <<[op |-> "train_state.step", task |-> task_name,
                           mode |-> mode, grad |-> grad]>>
  /\ UNCHANGED <<units, tau_dict, dirs,
                 cfg, gen, grad, opt_steps, mode, log, dds_log, dds_opt_steps,
                 target_grad, rewards, eval_out, weights, opt_state, saver,
                 disk, aux_at_save, ckpt_out>>

NextTrainState ==
  \/ CallFromTaskNameList
  \/ CallTrainStateStep

SpecTrainState == InitTrainState /\ [][NextTrainState]_vars

\* ------------------------------------------------------------- checkpoint calls

\* the configurations checkpointing is explored under: the runners that
\* complete their steps, without accumulation
CkptConfigs ==
  {c \in BaseCfg \cup DDSCfg \cup MultiDDSCfg :
     /\ c.max_steps = MaxCkptSteps
     /\ c.target_task = 1
     /\ \A t \in Tasks : c.gas[t] = 1
     /\ c.dds_update_freq = 1 /\ c.dds_update_steps = 1
     /\ c.sampler_update_freq = 1}

InitCkpt ==
  /\ InitWith(CkptConfigs) /\ InitOtherModules
  /\ \E multiple_checkpoints \in BOOLEAN :
       saver = CheckpointSaver("metadata", multiple_checkpoints)

\* what a call of the runner's state interface leaves for the caller
CkptCall(w, out) ==
  /\ Commit(w)
  /\ ckpt_out' = out
  /\ eval_out' = NoCall
  /\ UNCHANGED <<cfg, gen>>

\* runner.get_runner_state()
CallGetRunnerState ==
  /\ CkptCall(Emit(World, "get_runner_state", 0),
              [kind |-> "get_runner_state", value |-> GetRunnerState(World)])
  /\ UNCHANGED <<saver, disk, aux_at_save>>

\* runner.load_state(runner.get_runner_state())
CallLoadStateRoundTrip ==
  /\ CkptCall(LoadState(Emit(World, "get_runner_state", 0), GetRunnerState(World)),
              [kind |-> "round trip", value |-> GetRunnerState(World)])
  /\ UNCHANGED <<saver, disk, aux_at_save>>

\* the runner's state that get_runner_state() leaves out: the DDSOptimizer's
\* own optimizer (the updates it has counted) and MultiDDSRunner.target_grad
AuxiliaryState == [dds_optimizer |-> dds_opt_steps, target_grad |-> target_grad]

\* checkpoint_saver.save(runner_state=runner.get_runner_state(),
\*                       metarunner_state=...), the TrainState being the
\* metarunner's own state
CallSave ==
  /\ Len(disk) < MaxSaves
  /\ LET r == CheckpointSaverSave(saver, GetRunnerState(World),
                                  [train_state |-> train_state])
     IN  /\ saver' = r.saver
         /\ disk' = Append(disk, r.write)
         /\ aux_at_save' = Append(aux_at_save, AuxiliaryState)
         /\ CkptCall(Emit(World, "get_runner_state", 0),
                     [kind |-> "save", save |-> Len(disk) + 1])

\* the file at the path of the i-th save still holds what that save wrote
IsOnDisk(i) == \A j \in (i + 1)..Len(disk) : disk[j].path /= disk[i].path

\* runner.load_state(checkpoint["runner_state"]) on a checkpoint read back
CallLoadCheckpoint ==
  /\ \E i \in 1..Len(disk) :
       /\ IsOnDisk(i)
       /\ CkptCall(LoadState(World, disk[i].data.runner_state),
                   [kind |-> "load_state", save |-> i])
  /\ UNCHANGED <<saver, disk, aux_at_save>>

NextCkpt ==
  \/ RunTrainContext
  \/ NextJiant
  \/ NextDDS
  \/ NextMultiDDS
  \/ NextExhausted
  \/ CallGetRunnerState
  \/ CallLoadStateRoundTrip
  \/ CallSave
  \/ CallLoadCheckpoint

SpecCkpt == InitCkpt /\ [][NextCkpt]_vars

\* ------------------------------------------------------------- restarts
\* A base runner whose process is restarted on the same output_dir.

\* runs of one step, so that saves differ in what they hold
RestartConfigs ==
  {c \in BaseCfg : c.max_steps = 1 /\ \A t \in Tasks : c.gas[t] = 1}

InitRestart ==
  /\ InitWith(RestartConfigs) /\ InitOtherModules
  /\ \E multiple_checkpoints \in BOOLEAN :
       saver = CheckpointSaver("metadata", multiple_checkpoints)

\* The process ends and a new one is set up on the same output_dir: what
\* lived in memory is constructed anew, the CheckpointSaver and the log
\* writer included, and the checkpoint files stay.
RestartProcess ==
  /\ disk /= <<>>
  /\ saver' = CheckpointSaver(saver.metadata, saver.multiple_checkpoints)
  /\ train_state' = from_task_name_list(Tasks)
  /\ gen' = [status |-> "none", pos |-> 0, stop |-> 0, start |-> 0, steps |-> 0,
             yielded |-> 0, resumed |-> FALSE, origin |-> "fresh",
             opt_start |-> 0, after_raise |-> FALSE]
  /\ grad' = <<>> /\ opt_steps' = 0 /\ mode' = "train"
  /\ log' = <<>> /\ events' = <<>> /\ error' = ""
  /\ weights' = <<>> /\ opt_state' = 0
  /\ eval_out' = NoCall
  /\ ckpt_out' = [kind |-> "CheckpointSaver", files |-> Len(disk)]
  /\ UNCHANGED <<units, tau_dict, dirs,
                 cfg, dds_log, dds_opt_steps, target_grad, rewards,
                 disk, aux_at_save>>

NextRestart ==
  \/ RunTrainContext
  \/ NextJiant
  \/ NextExhausted
  \/ CallSave
  \/ RestartProcess

SpecRestart == InitRestart /\ [][NextRestart]_vars

\* ------------------------------------------------------------- evaluation calls

\* the task_name_list arguments tried: one name (possibly one that is in no
\* dict), all the tasks, and the first task followed by an unknown name
TaskNameLists ==
  {<<t>> : t \in TaskNames} \cup {[i \in 1..NumTasks |-> i]} \cup {<<1, NumTasks + 1>>}

\* what the caller sees of a call: the value returned, or the exception
Outcome(r, call) ==
  IF r.w.error = "" THEN [kind |-> "returned", call |-> call, value |-> r.ret]
  ELSE [kind |-> "raised", call |-> call, value |-> None]

EvalCall(r, call) ==
  /\ Commit(r.w)
  /\ eval_out' = Outcome(r, call)
  /\ ckpt_out' = NoCall
  /\ UNCHANGED <<cfg, gen, saver, disk, aux_at_save>>

CallRunVal ==
  \E task \in Tasks, local_rank \in {-1, 0}, return_preds \in BOOLEAN :
    EvalCall(run_val(World, task, cfg.val_stream, local_rank, return_preds),
             [fn |-> "run_val", local_rank |-> local_rank, tasks |-> <<task>>])

CallRunTest ==
  \E task \in Tasks, local_rank \in {-1, 0} :
    EvalCall(run_test(World, task, cfg.val_stream, local_rank, TRUE),
             [fn |-> "run_test", local_rank |-> local_rank, tasks |-> <<task>>])

CallRunnerRunVal ==
  \E task_name_list \in TaskNameLists, return_preds \in BOOLEAN :
    EvalCall(RunnerRunVal(World, task_name_list, return_preds),
             [fn |-> "JiantRunner.run_val", local_rank |-> cfg.local_rank,
              tasks |-> task_name_list])

CallRunnerRunTest ==
  \E task_name_list \in TaskNameLists :
    EvalCall(RunnerRunTest(World, task_name_list),
             [fn |-> "JiantRunner.run_test", local_rank |-> cfg.local_rank,
              tasks |-> task_name_list])

Next ==
  \/ RunTrainContext
  \/ ResumeFromCheckpoint
  \/ ResumeTrainContext
  \/ NextJiant
  \/ NextReptile
  \/ NextDDS
  \/ NextMultiDDS
  \/ NextDistillation
  \/ NextExhausted

Spec == Init /\ [][Next]_vars

\* training of the base runner interleaved with evaluation and testing
NextEval ==
  \/ RunTrainContext
  \/ NextJiant
  \/ NextExhausted
  \/ CallRunVal
  \/ CallRunTest
  \/ CallRunnerRunVal
  \/ CallRunnerRunTest

SpecEval == InitEval /\ [][NextEval]_vars

\* the module-level functions applied to every stream
NextRunVal ==
  \/ CallRunVal
  \/ CallRunTest

SpecRunVal == InitRunVal /\ [][NextRunVal]_vars

\* ------------------------------------------------------------- download script

\* the first list of download_data_and_write_config
NlpTasks ==
  {"cola", "sst", "mrpc", "qqp", "stsb", "mnli", "snli", "qnli", "rte", "wnli",
   "glue_diagnostics", "cb", "copa", "multirc", "wic", "wsc", "boolq", "record",
   "superglue_broadcoverage_diagnostics", "superglue_winogender_diagnostics"}

\* the second list
XtremeTasks ==
  {"xnli", "pawsx", "udpos", "panx", "xquad", "mlqa", "tydiqa", "bucc2018",
   "tatoeba"}

\* the if / elif chain: the function the task name is handed to, or the raise
DownloaderFor(task_name) ==
  IF task_name \in NlpTasks
  THEN "nlp_tasks_download.download_data_and_write_config"
  ELSE IF task_name \in XtremeTasks
  THEN "xtreme_download.download_xtreme_data_and_write_config"
  ELSE IF task_name = "squad_v1"
  THEN "files_tasks_download.download_squad_v1_data_and_write_config"
  ELSE IF task_name = "squad_v2"
  THEN "files_tasks_download.download_squad_v2_data_and_write_config"
  ELSE "KeyError"

\* os.makedirs(path, exist_ok=True)
MakeDirs(w, path) == Emit([w EXCEPT !.dirs = @ \cup {path}], "os.makedirs", path)

\* py_io.create_dir(output_base_path, name), whose code is outside the
\* sources at hand: it returns the path, and creates says whether it also
\* made the directory
CreateDir(w, name, creates) ==
  Emit(IF creates THEN [w EXCEPT !.dirs = @ \cup {name}] ELSE w,
       "py_io.create_dir", name)

\* the downloaders are taken to return normally
download_data_and_write_config(w, task_name, data_path, config_path) ==
  LET w1 == MakeDirs(MakeDirs(w, data_path), config_path)
  IN  IF DownloaderFor(task_name) = "KeyError"
      THEN Raise(Emit(w1, "KeyError", task_name), "KeyError")
      ELSE Emit(w1, DownloaderFor(task_name), task_name)

RECURSIVE download_all_dataContinues(_, _, _, _, _)
download_all_dataContinues(w, task_name_ls, verbose, creates, i) ==
  IF i > Len(task_name_ls) THEN w
  ELSE
    LET w1 == CreateDir(CreateDir(w, "data", creates), "configs", creates)
        w2 == download_data_and_write_config(w1, task_name_ls[i], "data", "configs")
    IN  download_all_dataContinues(
          IF verbose THEN Emit(w2, "print", task_name_ls[i]) ELSE w2,
          task_name_ls, verbose, creates, i + 1)

\* the loop of download_all_data from the i-th task name on
RECURSIVE download_all_data(_, _, _, _, _)
download_all_data(w, task_name_ls, verbose, creates, i) ==
  IF i > Len(task_name_ls) THEN w
  ELSE
    LET w1 == CreateDir(CreateDir(w, "data", creates), "configs", creates)
        w2 == download_data_and_write_config(w1, task_name_ls[i], "data", "configs")
    IN  IF w2.error /= "" THEN w2
        ELSE download_all_data(
               IF verbose THEN Emit(w2, "print", task_name_ls[i]) ELSE w2,
               task_name_ls, verbose, creates, i + 1)

\* task names a caller may pass: every name with a branch and two with none
DownloadNames == NlpTasks \cup XtremeTasks \cup {"squad_v1", "squad_v2", "squad_v3", "COLA"}

\* the names the lists are drawn from: one of each of three groups, one of none
ListedNames == {"cola", "tatoeba", "squad_v2", "squad_v3"}

DownloadLists == UNION {[1..n -> ListedNames] : n \in 0..MaxTaskList}

InitDownload ==
  /\ InitWith(TrainStateConfigs) /\ InitOtherModules
  /\ saver = CheckpointSaver("metadata", FALSE)

\* download_all_data(output_base_path, task_name_ls, verbose)
CallDownloadAllData ==
  \E task_name_ls \in DownloadLists, verbose \in BOOLEAN, creates \in BOOLEAN :
    EvalCall([w |-> download_all_data(World, task_name_ls, verbose, creates, 1),
              ret |-> None],
             [fn |-> "download_all_data", tasks |-> task_name_ls,
              verbose |-> verbose])

\* download_data_and_write_config(task_name, data path, config path)
CallDownloadDataAndWriteConfig ==
  \E task_name \in DownloadNames :
    EvalCall([w |-> download_data_and_write_config(World, task_name, "data",
                                                   "configs"),
              ret |-> None],
             [fn |-> "download_data_and_write_config", tasks |-> <<task_name>>,
              verbose |-> FALSE])

NextDownload ==
  \/ CallDownloadAllData
  \/ CallDownloadDataAndWriteConfig

SpecDownload == InitDownload /\ [][NextDownload]_vars

\* ------------------------------------------------------------- task-aware units

\* a task name held in tau_task_name (which is None before any set_task)
Str(task_name) == [kind |-> "str", value |-> task_name]

\* TaskAwareUnit(): the object __init__ leaves
TaskAwareUnit == [class |-> "TaskAwareUnit", tau_task_name |-> None]

\* an object of any other class
OtherObject == [class |-> "object"]

\* isinstance(one_object, TaskAwareUnit), one_object being a heap address
IsTaskAwareUnit(w, one_object) == w.units[one_object].class = "TaskAwareUnit"

\* TaskAwareUnit.set_task
set_task(w, one_object, task_name) ==
  [w EXCEPT !.units[one_object].tau_task_name = Str(task_name)]

\* the dict comprehension of create_tau_dict over the pairs from the i-th
\* on: a later pair replaces an earlier entry of the same name
RECURSIVE TauDictFrom(_, _, _, _)
TauDictFrom(w, named_objects, i, tau) ==
  IF i > Len(named_objects) THEN tau
  ELSE LET object_name == named_objects[i][1]
           one_object == named_objects[i][2]
       IN  TauDictFrom(w, named_objects, i + 1,
             IF IsTaskAwareUnit(w, one_object)
             THEN [n \in DOMAIN tau \cup {object_name} |->
                     IF n = object_name THEN one_object ELSE tau[n]]
             ELSE tau)

\* create_tau_dict(named_objects): named_objects is the list of pairs (the
\* items of the dict when a dict is given)
create_tau_dict(w, named_objects) ==
  LET tau == TauDictFrom(w, named_objects, 1, [n \in {} |-> 0])
  IN  [w |-> Emit([w EXCEPT !.tau_dict = tau], "create_tau_dict", 0),
       ret |-> [kind |-> "dict", dict |-> tau]]

set_tau_taskSkipsShared(w, tau, task_name) ==
  Emit([w EXCEPT !.units =
          [o \in DOMAIN w.units |->
             IF \E n \in DOMAIN tau : tau[n] = o /\ w.units[o].tau_task_name = None
             THEN [w.units[o] EXCEPT !.tau_task_name = Str(task_name)]
             ELSE w.units[o]]],
       "set_tau_task", task_name)

\* set_tau_task(tau_dict, task_name): set_task on every value of the dict
set_tau_task(w, tau, task_name) ==
  Emit([w EXCEPT !.units =
          [o \in DOMAIN w.units |->
             IF \E n \in DOMAIN tau : tau[n] = o
             THEN set_task(w, o, task_name).units[o]
             ELSE w.units[o]]],
       "set_tau_task", task_name)

\* the names objects are given
ObjectNames == {"encoder", "head"}

\* the lists of (name, object) pairs over the objects constructed so far
NamedObjectLists ==
  UNION {[1..n -> ObjectNames \X DOMAIN units] : n \in 0..MaxNamed}

\* the names of the list are pairwise distinct, as the items of a dict are
DistinctNames(named_objects) ==
  \A i, j \in 1..Len(named_objects) :
    named_objects[i][1] = named_objects[j][1] => i = j

InitTau ==
  /\ InitWith(TrainStateConfigs) /\ InitOtherModules
  /\ saver = CheckpointSaver("metadata", FALSE)

\* TaskAwareUnit() or an object of another class is constructed
Construct ==
  /\ Len(units) < MaxObjects
  /\ \E new \in {TaskAwareUnit, OtherObject} :
       EvalCall([w |-> Emit([World EXCEPT !.units = Append(@, new)], new.class, 0),
                 ret |-> None],
                [fn |-> new.class, args |-> <<>>])

\* unit.set_task(task_name) called on one unit
CallSetTask ==
  \E one_object \in DOMAIN units, task_name \in Tasks :
    /\ IsTaskAwareUnit(World, one_object)
    /\ EvalCall([w |-> Emit(set_task(World, one_object, task_name), "set_task",
                            task_name),
                 ret |-> None],
                [fn |-> "set_task", args |-> <<one_object, task_name>>])

\* tau_dict = create_tau_dict(named_objects), called while no unit is held in
\* tau_dict (calling it again later reaches no further state)
CallCreateTauDict ==
  /\ DOMAIN tau_dict = {}
  /\ \E named_objects \in NamedObjectLists :
       EvalCall(create_tau_dict(World, named_objects),
                [fn |-> "create_tau_dict", args |-> named_objects])

\* set_tau_task(tau_dict, task_name)
CallSetTauTask ==
  \E task_name \in Tasks :
    EvalCall([w |-> set_tau_task(World, tau_dict, task_name), ret |-> None],
             [fn |-> "set_tau_task", args |-> <<task_name>>])

NextTau ==
  \/ Construct
  \/ CallSetTask
  \/ CallCreateTauDict
  \/ CallSetTauTask

SpecTau == InitTau /\ [][NextTau]_vars

\* ------------------------------------------------------------- properties

Max(a, b) == IF a >= b THEN a ELSE b

HasCall(ev, op) == \E i \in 1..Len(ev) : ev[i].op = op

FirstCall(ev, op) ==
  CHOOSE i \in 1..Len(ev) : ev[i].op = op /\ \A j \in 1..(i - 1) : ev[j].op /= op

\* The task that received the main optimizer step of the handler whose calls
\* are ev: the task of the last backward pass before the first optimizer.step.
TrainedTask(ev) ==
  LET s == FirstCall(ev, "optimizer.step")
      b == CHOOSE i \in 1..(s - 1) :
             ev[i].op = "backward" /\ \A j \in (i + 1)..(s - 1) : ev[j].op /= "backward"
  IN  ev[b].task

\* this transition is one call of run_train_step made by the generator
IsTrainStep == gen'.steps = gen.steps + 1

\* a run_train_context generator that has not raised
FreshRun == gen.origin = "fresh" /\ ~gen.resumed /\ gen.status \in {"suspended", "exhausted"}

\* C1: pulling N elements from run_train_context() leaves global_steps = N, a
\* run_train_context() pulled to exhaustion (run_train) ends with global_steps
\* = max_steps, and no task_steps entry decreases from one state to the next.
C1_GlobalStepsCountPulls ==
  /\ [](FreshRun => /\ train_state.global_steps = gen.yielded
                    /\ gen.yielded <= cfg.max_steps
                    /\ (gen.status = "exhausted" =>
                          train_state.global_steps = cfg.max_steps))
  /\ [][\A t \in Tasks : train_state'.task_steps[t] >= train_state.task_steps[t]]_vars

C1_Witness ==
  /\ FreshRun /\ gen.status = "exhausted"
  /\ cfg.max_steps = MaxSteps /\ train_state.global_steps = MaxSteps
  /\ \A t \in Tasks : train_state.task_steps[t] >= 1

\* C2: in every runner, a completed run_train_step adds exactly 1 to
\* global_steps and exactly 1 to task_steps of the one task that received the
\* main optimizer step, and leaves every other task_steps entry unchanged,
\* whatever the accumulation, inner-loop and probe batches it ran.
C2_OneStepOneCount ==
  [][(IsTrainStep /\ error' = "") =>
       /\ train_state'.global_steps = train_state.global_steps + 1
       /\ train_state'.task_steps =
            [train_state.task_steps EXCEPT ![TrainedTask(events')] = @ + 1]]_vars

C2_Witness ==
  /\ cfg.runner = "multidds" /\ error = "" /\ HasCall(events, "update_sampler")
  /\ cfg.gas[cfg.target_task] = MaxAccum
  /\ train_state.global_steps >= 2
  /\ \E t \in Tasks : train_state.task_steps[t] = 0

\* C3: a resume_train_context generator started at global_steps = k and pulled
\* to exhaustion has made exactly max(0, max_steps - k) run_train_step calls
\* and, when k <= max_steps, leaves global_steps = max_steps; when the
\* TrainState is that of a run interrupted in this process, the optimizer has
\* then stepped max_steps times in total, as in an uninterrupted run.
C3_ResumeCompletesTheCount ==
  (gen.resumed /\ gen.status = "exhausted") =>
    /\ gen.steps = Max(0, cfg.max_steps - gen.start)
    /\ (gen.start <= cfg.max_steps => train_state.global_steps = cfg.max_steps)
    /\ (gen.origin = "fresh" => opt_steps = cfg.max_steps)

C3_Witness ==
  /\ gen.resumed /\ gen.status = "exhausted" /\ gen.origin = "fresh"
  /\ gen.start >= 1 /\ gen.steps >= 1
  /\ train_state.global_steps = cfg.max_steps

\* C4: run_train() (run_train_context pulled to exhaustion) has invoked the
\* optimizer's step exactly max_steps times and emitted exactly max_steps
\* loss_train entries, the i-th of which carries global_step = i.
C4_RunTrainStepsAndLogs ==
  FreshRun =>
    /\ \A i \in 1..Len(log) : log[i].global_step = i
    /\ (gen.status = "exhausted" =>
          /\ opt_steps = cfg.max_steps
          /\ Len(log) = cfg.max_steps)

C4_Witness ==
  /\ FreshRun /\ gen.status = "exhausted" /\ cfg.runner = "base"
  /\ cfg.max_steps = MaxSteps /\ Len(log) = MaxSteps /\ opt_steps = MaxSteps
  /\ \A t \in Tasks : cfg.gas[t] = 1

\* C5: every step of the DDS runner completes and appends one record to
\* dds_details_logs.jsonl and one loss_train entry, so the detail log holds as
\* many records as steps were made (stated for accumulation turned off).
C5_EveryDdsStepLogs ==
  (cfg.runner = "dds" /\ \A t \in Tasks : cfg.gas[t] = 1) =>
    /\ error = ""
    /\ Len(dds_log) = opt_steps
    /\ Len(log) = opt_steps

\* C6: in the DDS runner no run_train_step trains the target task or advances
\* task_steps[target_task], whatever the sampler draws; task_steps[target_task]
\* of a run started fresh stays 0.
C6_DdsNeverTrainsTarget ==
  /\ []((cfg.runner = "dds" /\ gen.origin = "fresh") =>
          train_state.task_steps[cfg.target_task] = 0)
  /\ [][(cfg.runner = "dds" /\ IsTrainStep) =>
          /\ train_state'.task_steps[cfg.target_task] =
               train_state.task_steps[cfg.target_task]
          /\ (HasCall(events', "optimizer.step") =>
                TrainedTask(events') /= cfg.target_task)]_vars

C6_Witness ==
  /\ cfg.runner = "dds" /\ opt_steps >= 1 /\ train_state.global_steps >= 1
  /\ \E i \in 1..Len(events) :
       events[i].op = "sampler.pop" /\ events[i].task = cfg.target_task

\* C7: a DDS run of max_steps steps performs one weighting-model update for
\* each multiple of dds_update_freq up to max_steps (2 for freq 5 and 10
\* steps); stated for dds_update_steps = 1 and accumulation turned off, of a
\* run_train() that has ended.
C7_DdsUpdatesPerRun ==
  (/\ cfg.runner = "dds" /\ cfg.dds_update_steps = 1
   /\ \A t \in Tasks : cfg.gas[t] = 1
   /\ gen.origin = "fresh" /\ ~gen.resumed
   /\ gen.status \in {"exhausted", "raised"}) =>
    dds_opt_steps = cfg.max_steps \div cfg.dds_update_freq

\* C8: in the MultiDDS runner the gradient buffers are zero between steps, so
\* also after a sampler-update block, and the first forward pass of every
\* step finds them zero.
C8_MultiDdsGradsZero ==
  cfg.runner = "multidds" =>
    /\ grad = <<>>
    /\ (HasCall(events, "forward") =>
          events[FirstCall(events, "forward")].grad = <<>>)

C8_Witness ==
  /\ cfg.runner = "multidds" /\ cfg.sampler_update_freq = 1
  /\ train_state.global_steps = 2 /\ Len(rewards) = 2
  /\ HasCall(events, "update_sampler") /\ grad = <<>>

\* C9: in every runner the loss_train record a step emits names the task the
\* step trained, with that task's counter and the global counter after the
\* step.
C9_LogNamesTrainedTask ==
  (error = "" /\ HasCall(events, "write_entry")) =>
    /\ log[Len(log)].task = TrainedTask(events)
    /\ log[Len(log)].task_step = train_state.task_steps[TrainedTask(events)]
    /\ log[Len(log)].global_step = train_state.global_steps

NonPrimaryCall == eval_out /= NoCall /\ eval_out.call.local_rank /= -1

\* the call is one of the JiantRunner methods
MethodCall ==
  eval_out /= NoCall /\ eval_out.call.fn \in {"JiantRunner.run_val", "JiantRunner.run_test"}

\* a name of the call's task_name_list that the container cannot resolve
UnknownName(call) ==
  \E i \in 1..Len(call.tasks) :
    \/ call.tasks[i] \notin Tasks
    \/ call.fn = "JiantRunner.run_test" /\ call.tasks[i] \notin cfg.test_task_list

NoEvaluationRan == ~HasCall(events, "forward") /\ ~HasCall(events, "model.eval")

\* C10 (as claimed): with local_rank != -1 the module-level functions and the
\* JiantRunner methods return nothing, run no forward pass and do not switch
\* the model to inference mode.
C10_NonPrimaryReturnsNothing ==
  NonPrimaryCall =>
    /\ eval_out.kind = "returned" /\ eval_out.value = None
    /\ NoEvaluationRan

\* C10 (amended): with local_rank != -1 the module-level run_val and run_test
\* return None, the JiantRunner methods (called with task names the container
\* resolves) return a mapping from each requested task name to None, and none
\* of them runs a forward pass or switches the model to inference mode.
C10_NonPrimaryNoOp ==
  NonPrimaryCall =>
       /\ NoEvaluationRan
       /\ (eval_out.call.fn \in {"run_val", "run_test"} =>
             eval_out.kind = "returned" /\ eval_out.value = None)
       /\ ((MethodCall /\ ~UnknownName(eval_out.call)) =>
             /\ eval_out.kind = "returned"
             /\ eval_out.value.kind = "dict"
             /\ DOMAIN eval_out.value.dict =
                  {eval_out.call.tasks[i] : i \in 1..Len(eval_out.call.tasks)}
             /\ \A t \in DOMAIN eval_out.value.dict : eval_out.value.dict[t] = None)

C10_Witness ==
  /\ NonPrimaryCall /\ eval_out.call.fn = "JiantRunner.run_val"
  /\ Len(eval_out.call.tasks) = NumTasks
  /\ opt_steps >= 1 /\ mode = "train"

\* C11: a consumer that has pulled k elements from run_train_context() or
\* resume_train_context() and holds the suspended generator finds exactly k
\* steps executed: run_train_step was called k times, the main optimizer
\* stepped exactly k times since the generator was created, the gradient
\* buffers are cleared, and global_steps (and the sum of task_steps) advanced
\* by exactly k (for a runner none of whose earlier pulls raised).
C11_EarlyStopIsExact ==
  (gen.status = "suspended" /\ ~gen.after_raise) =>
    /\ gen.steps = gen.yielded
    /\ opt_steps = gen.opt_start + gen.yielded
    /\ grad = <<>>
    /\ train_state.global_steps = gen.start + gen.yielded
    /\ SumSeq(train_state.task_steps) = train_state.global_steps

C11_Witness ==
  /\ gen.status = "suspended" /\ RangeHasNext(gen.pos, gen.stop)
  /\ gen.resumed /\ gen.origin = "fresh"
  /\ gen.yielded >= 1 /\ gen.opt_start >= 1
  /\ cfg.runner = "reptile" /\ \E t \in Tasks : train_state.task_steps[t] = 0

\* C12: a consumer that collects every element of an exhausted
\* run_train_context() holds max_steps elements, the i-th of which records
\* global_steps = i.
C12_CollectedSnapshots ==
  (FreshRun /\ gen.status = "exhausted") =>
    /\ Len(Collected) = cfg.max_steps
    /\ \A i \in 1..Len(Collected) : Collected[i].global_steps = i

\* the calls of one base run_train_step, given the index s of its optimizer step
BaseStepOrder(ev, s) ==
  /\ \A i \in 1..Len(ev) : ev[i].op = "optimizer.step" <=> i = s
  /\ Len(ev) = s + 3
  /\ ev[s + 1].op = "zero_grad" /\ ev[s + 1].grad = <<>>
  /\ ev[s + 2].op = "train_state.step"
  /\ ev[s + 3].op = "write_entry"
  /\ \A i \in 1..Len(ev) : ev[i].op = "backward" => i < s

\* C20: in a base run_train_step the gradient_accumulation_steps backward
\* passes, one per forward pass and all of the one sampled task, come before
\* the single optimizer step, which is followed immediately by the gradient
\* clear, the TrainState advance and the log entry; the first backward pass of
\* a step finds no contribution of another step in the buffers, and the
\* optimizer steps on exactly this step's contributions.
C20_BaseStepOrder ==
  (cfg.runner = "base" /\ HasCall(events, "optimizer.step")) =>
    LET s == FirstCall(events, "optimizer.step")
        task_name == events[FirstCall(events, "sampler.pop")].task
        backwards == {i \in 1..Len(events) : events[i].op = "backward"}
        forwards == {i \in 1..Len(events) : events[i].op = "forward"}
    IN  /\ BaseStepOrder(events, s)
        /\ Cardinality(backwards) = cfg.gas[task_name]
        /\ backwards = {i + 1 : i \in forwards}
        /\ \A i \in backwards \cup forwards : events[i].task = task_name
        /\ events[FirstCall(events, "backward")].grad = <<task_name>>
        /\ events[s].grad = [j \in 1..cfg.gas[task_name] |-> task_name]
        /\ events[s + 2].task = task_name

C20_Witness ==
  /\ cfg.runner = "base" /\ HasCall(events, "optimizer.step")
  /\ events[FirstCall(events, "sampler.pop")].task = 1
  /\ cfg.gas[1] = MaxAccum /\ MaxAccum >= 2
  /\ train_state.global_steps >= 2
  /\ \A t \in Tasks : train_state.task_steps[t] >= 1

\* a DistillationRunner step has run
DistillationStepRan == cfg.runner = "distillation" /\ HasCall(events, "teacher_forward")

\* C17: a DistillationRunner step on a task of any of the five task types
\* fails with the explicit not-implemented error, before any backward pass,
\* optimizer step, TrainState change or log entry.
C17_DistillationNotImplemented ==
  DistillationStepRan =>
    /\ error = "NotImplementedError"
    /\ ~HasCall(events, "backward") /\ ~HasCall(events, "optimizer.step")
    /\ ~HasCall(events, "train_state.step") /\ ~HasCall(events, "write_entry")

\* C16: TrainState.step(task_name) with a task_name outside the tracked set
\* fails (KeyError) and leaves global_steps, every task_steps entry and the
\* tracked set as they were.
C16_UntrackedStepFails ==
  [][(/\ events' /= <<>>
      /\ events'[1].op = "train_state.step"
      /\ events'[1].task \notin DOMAIN train_state.task_steps) =>
        /\ error' = "KeyError"
        /\ train_state' = train_state]_vars

C16_Witness ==
  /\ error = "KeyError"
  /\ events /= <<>> /\ events[1].op = "train_state.step"
  /\ events[1].task \in Tasks /\ events[1].task \notin DOMAIN train_state.task_steps
  /\ train_state.global_steps >= 2
  /\ Cardinality(DOMAIN train_state.task_steps) >= 2

\* C13: load_state(get_runner_state()) leaves the model weights and the main
\* optimizer's state as they were, after any number of training steps, and
\* get_runner_state() alone changes neither and returns both.
C13_RoundTripIsIdentity ==
  [][(ckpt_out'.kind \in {"round trip", "get_runner_state"}) =>
       /\ weights' = weights
       /\ opt_state' = opt_state
       /\ ckpt_out'.value = [model |-> weights, optimizer |-> opt_state]]_vars

C13_Witness ==
  /\ ckpt_out.kind = "round trip" /\ HasCall(events, "load_state")
  /\ gen.yielded = MaxCkptSteps /\ opt_state = MaxCkptSteps
  /\ Len(weights) >= 2

\* C14: the snapshot of a DDS or MultiDDS runner carries the runner's
\* auxiliary state (the weighting-model optimizer's state, the accumulated
\* target gradient): after load_state of a saved snapshot that state is what
\* it was when the snapshot was taken.
C14_AuxiliaryStateRestored ==
  ckpt_out.kind = "load_state" => AuxiliaryState = aux_at_save[ckpt_out.save]

\* C15: with the single-file policy every save writes checkpoint.p and
\* save_count stays 0; with multiple checkpoints the k-th save (from 0)
\* writes checkpoint_k.p and save_count is the number of saves made, so no
\* two saves share a path; every record written holds runner_state,
\* metarunner_state and the saver's unchanged metadata.
C15_SavePathsAndCount ==
  /\ ~saver.multiple_checkpoints =>
        /\ saver.save_count = 0
        /\ \A i \in 1..Len(disk) :
             disk[i].path = [stem |-> "checkpoint", index |-> -1]
  /\ saver.multiple_checkpoints =>
        /\ saver.save_count = Len(disk)
        /\ \A i \in 1..Len(disk) :
             disk[i].path = [stem |-> "checkpoint_", index |-> i - 1]
        /\ \A i, j \in 1..Len(disk) : i /= j => disk[i].path /= disk[j].path
  /\ saver.metadata = "metadata"
  /\ \A i \in 1..Len(disk) :
       /\ DOMAIN disk[i].data = {"runner_state", "metarunner_state", "metadata"}
       /\ disk[i].data.metadata = saver.metadata

C15_Witness ==
  /\ saver.multiple_checkpoints /\ Len(disk) = MaxSaves /\ MaxSaves >= 2
  /\ saver.save_count = MaxSaves
  /\ disk[1].data.runner_state /= disk[2].data.runner_state

\* C18: JiantRunner.run_val and JiantRunner.run_test called with a
\* task_name_list holding a name that is not in the container's task
\* dictionary (or, for run_test, not in the configured test task list) fail
\* and hand the caller no result mapping, partial or other.
C18_UnknownTaskNameFails ==
  (MethodCall /\ UnknownName(eval_out.call)) =>
    /\ eval_out.kind = "raised"
    /\ eval_out.value = None
    /\ error = "KeyError"

C18_Witness ==
  /\ MethodCall /\ eval_out.call.fn = "JiantRunner.run_test"
  /\ eval_out.call.tasks = <<1, NumTasks + 1>>
  /\ eval_out.kind = "raised" /\ HasCall(events, "forward")
  /\ cfg.local_rank = -1

\* the losses l1..lk of the batches of a stream
Losses(stream) == [i \in 1..Len(stream) |-> stream[i].loss]

\* C19: over a stream of k >= 1 batches with mean losses l1..lk, run_val
\* reports the loss (l1 + ... + lk) / k whatever the sizes of the batches, and
\* its accumulator has received each batch exactly once, in stream order.
C19_MeanOfBatchMeans ==
  (/\ eval_out /= NoCall /\ eval_out.call.fn = "run_val"
   /\ eval_out.call.local_rank = -1 /\ Len(cfg.val_stream) >= 1) =>
    /\ eval_out.kind = "returned" /\ eval_out.value.kind = "output"
    /\ eval_out.value.loss =
         [total |-> SumSeq(Losses(cfg.val_stream)), steps |-> Len(cfg.val_stream)]
    /\ eval_out.value.accumulator =
         [i \in 1..Len(cfg.val_stream) |->
            [batch_loss |-> cfg.val_stream[i].loss, batch |-> i]]
    /\ Cardinality({j \in 1..Len(events) : events[j].op = "forward"}) =
         Len(cfg.val_stream)

C19_Witness ==
  /\ eval_out /= NoCall /\ eval_out.call.fn = "run_val"
  /\ eval_out.kind = "returned" /\ eval_out.value /= None
  /\ Len(cfg.val_stream) = MaxEvalBatches /\ MaxEvalBatches >= 2
  /\ cfg.val_stream[1].loss /= cfg.val_stream[2].loss
  /\ cfg.val_stream[1].len /= cfg.val_stream[MaxEvalBatches].len

\* the names of the calls ev, in order
Ops(ev) == [i \in 1..Len(ev) |-> ev[i].op]

\* the i-th call of a Reptile step with the given loop counts: three calls,
\* then inner rounds of batches forward and backward passes and one
\* inner_step, then the closing calls
ReptileOp(i, inner, batches) ==
  LET round == 2 * batches + 1
      k == i - 3
  IN  IF i <= 3 THEN <<"model.train", "sampler.pop", "inner_begin">>[i]
      ELSE IF k <= inner * round
           THEN IF (k - 1) % round = round - 1 THEN "inner_step"
                ELSE IF ((k - 1) % round) % 2 = 0 THEN "forward" ELSE "backward"
           ELSE <<"inner_end", "optimizer.step", "zero_grad", "train_state.step",
                  "write_entry">>[k - inner * round]

\* C21: a Reptile run_train_step calls, in this order: inner_begin; inner_steps
\* rounds of num_sampled_tasks x gradient_accumulation_steps forward and
\* backward passes on the sampled task, each round closed by one inner_step;
\* inner_end; one outer optimizer step; one gradient clear (then the TrainState
\* advance and the log entry).
C21_ReptileCallOrder ==
  (cfg.runner = "reptile" /\ events /= <<>>) =>
    LET task_name == events[2].task
        batches == cfg.num_sampled_tasks * cfg.gas[task_name]
        n == 3 + cfg.inner_steps * (2 * batches + 1) + 5
    IN  /\ Ops(events) = [i \in 1..n |-> ReptileOp(i, cfg.inner_steps, batches)]
        /\ \A i \in 1..Len(events) :
             events[i].op \in {"forward", "backward"} => events[i].task = task_name
        /\ Cardinality({i \in 1..Len(events) : events[i].op = "inner_step"}) =
             cfg.inner_steps

C21_Witness ==
  /\ cfg.runner = "reptile" /\ events /= <<>> /\ events[2].task = 1
  /\ cfg.inner_steps = MaxInner /\ cfg.num_sampled_tasks = MaxSampled
  /\ cfg.gas[1] = MaxAccum /\ MaxInner >= 2 /\ MaxSampled >= 2 /\ MaxAccum >= 2

\* the positions of the calls named op in ev
Calls(ev, op) == {i \in 1..Len(ev) : ev[i].op = op}

\* the gradient buffers after one run_one_batch of task_name on cleared buffers
OwnGradient(task_name) == [k \in 1..cfg.gas[task_name] |-> task_name]

\* C22: a MultiDDS run_train_step steps the main optimizer exactly once, before
\* the update block; no optimizer step follows the target-gradient batch, and
\* every gradient read of the update block (the target's and each probed
\* task's) finds buffers that hold only that task's own batches and is
\* followed by a clear.
C22_ProbingLeavesWeights ==
  (cfg.runner = "multidds" /\ events /= <<>>) =>
    /\ Cardinality(Calls(events, "optimizer.step")) = 1
    /\ \A i \in Calls(events, "get_shared_grad") :
         /\ \A j \in Calls(events, "optimizer.step") : j < i
         /\ events[i].grad = OwnGradient(events[i].task)
         /\ i < Len(events) /\ events[i + 1].op = "zero_grad"
         /\ events[i + 1].grad = <<>>
    /\ \A i \in Calls(events, "forward") :
         events[i].grad = <<>> \/ events[i - 1].op = "backward"

C22_Witness ==
  /\ cfg.runner = "multidds" /\ error = ""
  /\ Cardinality(Calls(events, "get_shared_grad")) = NumTasks + 1
  /\ cfg.gas[1] = MaxAccum /\ MaxAccum >= 2
  /\ Cardinality(Calls(events, "optimizer.step")) = 1

\* C23: update_sampler is called once in each MultiDDS step whose
\* post-increment global_steps is a multiple of sampler_update_freq and in no
\* other step (global_steps \div sampler_update_freq calls in a run from
\* zero), after that step's optimizer step and target batch, with a reward
\* vector of one score per task of task_dict, in task_dict order, the target
\* task included.
C23_SamplerUpdateSchedule ==
  (cfg.runner = "multidds" /\ events /= <<>>) =>
    LET due == train_state.global_steps % cfg.sampler_update_freq = 0
        reward == rewards[Len(rewards)]
    IN  /\ Cardinality(Calls(events, "update_sampler")) = IF due THEN 1 ELSE 0
        /\ \A i \in Calls(events, "update_sampler") :
             /\ \E j \in Calls(events, "optimizer.step") : j < i
             /\ \E j \in Calls(events, "get_shared_grad") :
                  j < i /\ events[j].task = cfg.target_task
             /\ Len(rewards) >= 1
             /\ Len(reward) = NumTasks
             /\ \A t \in Tasks : reward[t].task = t
             /\ \E t \in Tasks : reward[t].task = cfg.target_task
        /\ gen.origin = "fresh" =>
             Len(rewards) = train_state.global_steps \div cfg.sampler_update_freq

C23_Witness ==
  /\ cfg.runner = "multidds" /\ gen.origin = "fresh" /\ error = ""
  /\ cfg.sampler_update_freq = 2 /\ train_state.global_steps = 3
  /\ Len(rewards) = 1 /\ Calls(events, "update_sampler") = {}
  /\ Calls(events, "optimizer.step") /= {}

\* C24: the target gradient the j-th sampler update compares each task
\* against is, with accumulate_target_grad, the sum from zero of the target
\* gradients read at updates 1..j, and without it the one read at update j.
C24_TargetGradientUsed ==
  cfg.runner = "multidds" =>
    \A j \in 1..Len(rewards) : \A t \in 1..Len(rewards[j]) :
      rewards[j][t].target =
        IF cfg.accumulate_target_grad
        THEN [k \in 1..(j * cfg.gas[cfg.target_task]) |-> cfg.target_task]
        ELSE OwnGradient(cfg.target_task)

C24_Witness ==
  /\ cfg.runner = "multidds" /\ cfg.accumulate_target_grad
  /\ Len(rewards) >= 2
  /\ Len(rewards[2][1].target) = 2 * Len(rewards[1][1].target)
  /\ target_grad = rewards[2][1].target

\* the task the sampling loop of the DDS step with calls ev left with
KeptTask(ev) ==
  LET last == CHOOSE i \in Calls(ev, "sampler.pop") :
                \A j \in Calls(ev, "sampler.pop") : j <= i
  IN  ev[last].task

\* C26: a DDS run_train_step whose source task has gradient_accumulation_steps
\* > 1 (batches non-empty) fails the "accumulation is turned off" assertion
\* after that task's backward passes and before the optimizer step: the
\* TrainState, the optimizer and the weights are as before the call and the
\* gradient buffers are left holding the step's contributions.
C26_DdsAccumulationAsserts ==
  /\ []((/\ cfg.runner = "dds" /\ events /= <<>>
         /\ cfg.gas[KeptTask(events)] > 1) =>
          /\ error = "AssertionError" /\ gen.status = "raised"
          /\ Cardinality(Calls(events, "backward")) = cfg.gas[KeptTask(events)]
          /\ events[Len(events)].op = "backward"
          /\ ~HasCall(events, "optimizer.step")
          /\ grad /= <<>> /\ Len(grad) >= cfg.gas[KeptTask(events)]
          /\ SubSeq(grad, Len(grad) - cfg.gas[KeptTask(events)] + 1, Len(grad)) =
               OwnGradient(KeptTask(events)))
  /\ [][(/\ cfg.runner = "dds" /\ IsTrainStep
         /\ cfg.gas[KeptTask(events')] > 1) =>
          /\ train_state' = train_state /\ opt_steps' = opt_steps
          /\ weights' = weights /\ log' = log]_vars

C26_Witness ==
  /\ cfg.runner = "dds" /\ events /= <<>> /\ cfg.gas[KeptTask(events)] = MaxAccum
  /\ MaxAccum > 1 /\ error = "AssertionError" /\ Len(grad) = MaxAccum
  /\ train_state.global_steps >= 1

\* C25: the sampling loop of a DDS step is left exactly by a draw of a
\* non-target task. If the sampler gives some non-target task non-zero
\* probability, every run_train_step leaves the loop; if it can only yield
\* the target task, a step that entered the loop stays in it and the
\* TrainState never advances.
C25_SamplingLoopTerminates ==
  /\ (gen.status = "sampling" /\ cfg.sampler_support \ {cfg.target_task} /= {})
       ~> (gen.status /= "sampling")
  /\ [][(gen.status = "sampling" /\ cfg.sampler_support \subseteq {cfg.target_task})
          => (gen'.status = "sampling" /\ train_state' = train_state)]_vars
  /\ [][(gen.status = "sampling" /\ gen'.status /= "sampling")
          => KeptTask(events') /= cfg.target_task]_vars

C25_Witness ==
  /\ gen.status = "suspended" /\ gen.yielded >= 1 /\ error = ""
  /\ cfg.target_task \in cfg.sampler_support
  /\ Cardinality(Calls(events, "sampler.pop")) = 2
  /\ events[2].task = cfg.target_task /\ events[3].task /= cfg.target_task

\* C27: a CheckpointSaver constructed under the multiple-checkpoints policy
\* counts from 0 whatever files output_dir holds: the k-th save of an
\* instance (from 0) writes checkpoint_k.p, so after n saves and a restart
\* the next save writes checkpoint_0.p again, replacing the earlier file,
\* and not checkpoint_n.p.
C27_NewSaverCountsFromZero ==
  /\ ckpt_out.kind = "CheckpointSaver" =>
        saver.save_count = 0 /\ ckpt_out.files = Len(disk) /\ Len(disk) >= 1
  /\ saver.multiple_checkpoints =>
        /\ saver.save_count <= Len(disk)
        /\ \A k \in 1..saver.save_count :
             disk[Len(disk) - saver.save_count + k].path =
               [stem |-> "checkpoint_", index |-> k - 1]
        /\ (ckpt_out.kind = "save" /\ saver.save_count = 1) =>
             \A i \in 1..(Len(disk) - 1) :
               disk[i].path.index = 0 => ~IsOnDisk(i)

C27_Witness ==
  /\ saver.multiple_checkpoints /\ ckpt_out.kind = "save"
  /\ saver.save_count = 1 /\ Len(disk) = MaxSaves /\ MaxSaves >= 2
  /\ disk[Len(disk)].path = [stem |-> "checkpoint_", index |-> 0]
  /\ disk[1].path = disk[Len(disk)].path /\ ~IsOnDisk(1)
  /\ disk[1].data /= disk[Len(disk)].data

\* C28: however run_train_step is interleaved with run_val and run_test, an
\* evaluation leaves the TrainState, the optimizer's step count and state,
\* the weights, the gradient buffers and the training log as they were;
\* every forward pass of an evaluation runs in inference mode and every
\* forward pass of a training step in training mode, also when an
\* evaluation came just before it.
C28_EvaluationLeavesTraining ==
  /\ [][eval_out' /= NoCall =>
          /\ train_state' = train_state /\ opt_steps' = opt_steps
          /\ opt_state' = opt_state /\ weights' = weights
          /\ grad' = grad /\ log' = log /\ gen' = gen]_vars
  /\ [](\A i \in Calls(events, "forward") :
          events[i].mode = IF eval_out /= NoCall THEN "eval" ELSE "train")
  /\ [][(mode = "eval" /\ IsTrainStep) =>
          /\ mode' = "train" /\ Calls(events', "forward") /= {}
          /\ opt_steps' = opt_steps + 1]_vars

C28_Witness ==
  /\ eval_out /= NoCall /\ eval_out.call.local_rank = -1
  /\ eval_out.kind = "returned" /\ Calls(events, "forward") /= {}
  /\ mode = "eval" /\ opt_steps >= 1
  /\ gen.status = "suspended" /\ RangeHasNext(gen.pos, gen.stop)

\* C29: on the primary role, run_val over a stream of no batches fails with
\* a division by zero (after switching the model to inference mode, with no
\* forward pass), whereas run_test over an empty stream returns normally, its
\* output holding an empty accumulator and the predictions.
C29_EmptyStream ==
  (/\ eval_out /= NoCall /\ eval_out.call.local_rank = -1
   /\ cfg.val_stream = <<>>) =>
    /\ ~HasCall(events, "forward") /\ HasCall(events, "model.eval")
    /\ eval_out.call.fn = "run_val" =>
         /\ eval_out.kind = "raised" /\ error = "ZeroDivisionError"
         /\ eval_out.value = None
    /\ eval_out.call.fn = "run_test" =>
         /\ eval_out.kind = "returned" /\ error = ""
         /\ eval_out.value.kind = "output"
         /\ eval_out.value.accumulator = <<>>
         /\ DOMAIN eval_out.value = {"kind", "accumulator", "preds"}
         /\ eval_out.value.preds

C29_Witness ==
  /\ eval_out /= NoCall /\ eval_out.call.local_rank = -1
  /\ cfg.val_stream = <<>> /\ eval_out.call.fn = "run_val"
  /\ error = "ZeroDivisionError" /\ mode = "eval"

\* the sum of the values of a task_steps dict
RECURSIVE SumTaskSteps(_)
SumTaskSteps(task_steps) ==
  IF DOMAIN task_steps = {} THEN 0
  ELSE LET t == CHOOSE k \in DOMAIN task_steps : TRUE
       IN  task_steps[t] +
           SumTaskSteps([k \in DOMAIN task_steps \ {t} |-> task_steps[k]])

\* C30: from_task_name_list(names) yields global_steps = 0 and a task_steps
\* whose keys are exactly the given names, each at 0; in every state reached
\* from there by step calls global_steps is the sum of the task_steps
\* entries, and a step call never changes the key set.
C30_TrainStateShape ==
  /\ [](train_state.global_steps = SumTaskSteps(train_state.task_steps))
  /\ [][(events' /= <<>> /\ events'[1].op = "from_task_name_list") =>
          /\ train_state'.global_steps = 0
          /\ DOMAIN train_state'.task_steps = events'[1].task
          /\ \A t \in events'[1].task : train_state'.task_steps[t] = 0]_vars
  /\ [][(events' /= <<>> /\ events'[1].op = "train_state.step") =>
          /\ DOMAIN train_state'.task_steps = DOMAIN train_state.task_steps
          /\ (error' = "" =>
                train_state'.global_steps = train_state.global_steps + 1)]_vars

C30_Witness ==
  /\ events /= <<>> /\ events[1].op = "train_state.step" /\ error = ""
  /\ DOMAIN train_state.task_steps = {1, NumTasks + 1}
  /\ train_state.task_steps[1] >= 1 /\ train_state.task_steps[NumTasks + 1] >= 2
  /\ train_state.global_steps =
       train_state.task_steps[1] + train_state.task_steps[NumTasks + 1]

\* the dataset names download_data_and_write_config has a branch for
KnownDatasets == NlpTasks \cup XtremeTasks \cup {"squad_v1", "squad_v2"}

\* the call hands a task to a downloader
IsDispatch(e) ==
  e.op \notin {"os.makedirs", "py_io.create_dir", "print", "KeyError"}

\* the position of the first name of task_name_ls in no group (one past the
\* end when there is none)
FirstUnknown(task_name_ls) ==
  CHOOSE k \in 1..(Len(task_name_ls) + 1) :
    /\ \A i \in 1..(k - 1) : task_name_ls[i] \in KnownDatasets
    /\ k <= Len(task_name_ls) => task_name_ls[k] \notin KnownDatasets

\* C31: download_all_data handles task_name_ls in list order and stops at
\* the first name of no dataset group with KeyError(task_name): the names
\* before it were each handed to one downloader, in order, no later name is
\* handed to any, and the data and configs directories exist when the
\* error is raised.
C31_DownloadStopsAtUnknown ==
  (eval_out /= NoCall /\ eval_out.call.fn = "download_all_data") =>
    LET task_name_ls == eval_out.call.tasks
        k == FirstUnknown(task_name_ls)
        dispatched == SelectSeq(events, IsDispatch)
    IN  /\ [i \in 1..Len(dispatched) |-> dispatched[i].task] =
             SubSeq(task_name_ls, 1, k - 1)
        /\ \A i \in 1..Len(dispatched) :
             dispatched[i].op = DownloaderFor(dispatched[i].task)
        /\ IF k <= Len(task_name_ls)
           THEN /\ eval_out.kind = "raised" /\ error = "KeyError"
                /\ events[Len(events)] =
                     [op |-> "KeyError", task |-> task_name_ls[k],
                      mode |-> mode, grad |-> grad]
                /\ {"data", "configs"} \subseteq dirs
                /\ \A d \in {"data", "configs"} :
                     \E i \in Calls(events, "os.makedirs") :
                       events[i].task = d /\ \A j \in Calls(events, "KeyError") : i < j
           ELSE eval_out.kind = "returned" /\ error = ""

C31_Witness ==
  /\ eval_out /= NoCall /\ eval_out.call.fn = "download_all_data"
  /\ Len(eval_out.call.tasks) = MaxTaskList /\ MaxTaskList >= 3
  /\ FirstUnknown(eval_out.call.tasks) = 2
  /\ eval_out.call.tasks[MaxTaskList] \in KnownDatasets
  /\ error = "KeyError" /\ Len(SelectSeq(events, IsDispatch)) = 1

\* the call the driver made last is one of fn
LastCall(fn) == eval_out /= NoCall /\ eval_out.call.fn = fn

\* what C32 says of set_tau_task and of the constructor
TauUnitsAgree ==
  /\ LastCall("set_tau_task") =>
        \A n \in DOMAIN tau_dict :
          units[tau_dict[n]].tau_task_name = Str(eval_out.call.args[1])
  /\ LastCall("TaskAwareUnit") => units[Len(units)].tau_task_name = None
  /\ \A n \in DOMAIN tau_dict : units[tau_dict[n]].class = "TaskAwareUnit"

\* C32 (as claimed): after set_tau_task(tau_dict, t) every unit of tau_dict
\* has tau_task_name = t; a new unit has tau_task_name None; create_tau_dict
\* keeps exactly the named objects that are TaskAwareUnit instances.
C32_KeepsExactlyTheUnits ==
  /\ TauUnitsAgree
  /\ LastCall("create_tau_dict") =>
        LET named_objects == eval_out.call.args
        IN  {<<n, tau_dict[n]>> : n \in DOMAIN tau_dict} =
              {named_objects[i] : i \in {j \in 1..Len(named_objects) :
                   units[named_objects[j][2]].class = "TaskAwareUnit"}}

\* C32 (amended): after set_tau_task(tau_dict, t) every unit of tau_dict has
\* tau_task_name = t; a new unit has tau_task_name None; create_tau_dict
\* keeps, under each name, the last object given under that name that is a
\* TaskAwareUnit instance, and no name without one: exactly the named
\* TaskAwareUnit instances when the names are pairwise distinct (as the
\* items of a dict are).
C32_KeepsLastUnitOfEachName ==
  /\ TauUnitsAgree
  /\ LastCall("create_tau_dict") =>
        LET named_objects == eval_out.call.args
            kept == {j \in 1..Len(named_objects) :
                       units[named_objects[j][2]].class = "TaskAwareUnit"}
        IN  /\ eval_out.value = [kind |-> "dict", dict |-> tau_dict]
            /\ DOMAIN tau_dict = {named_objects[i][1] : i \in kept}
            /\ \A n \in DOMAIN tau_dict :
                 \E i \in kept :
                   /\ named_objects[i] = <<n, tau_dict[n]>>
                   /\ \A j \in kept : named_objects[j][1] = n => j <= i
            /\ DistinctNames(named_objects) =>
                 {<<n, tau_dict[n]>> : n \in DOMAIN tau_dict} =
                   {named_objects[i] : i \in kept}

C32_Witness ==
  /\ LastCall("set_tau_task") /\ Cardinality(DOMAIN tau_dict) = 2
  /\ tau_dict["encoder"] /= tau_dict["head"]
  /\ \A n \in DOMAIN tau_dict : units[tau_dict[n]].tau_task_name = Str(2)
  /\ eval_out.call.args = <<2>>

====
